---- MODULE Spec2Model ----
(***************************************************************************)
(* Query governor of libredb-studio: the statement classifier              *)
(* (analyzeQuery), the limit rewriter (applyQueryLimit) of                 *)
(* src/lib/db/utils/query-limiter.ts and the query route that calls them,  *)
(* the estimate route (app/api/db/estimate/route.ts) and the plan analyzer *)
(* (analyzePlan of components/VisualExplain.tsx).                          *)
(*                                                                         *)
(* A SQL text is a sequence of lexical atoms: a keyword or an identifier   *)
(* (a run of word characters), a single digit, a single whitespace         *)
(* character or a single punctuation character.  Two adjacent word atoms   *)
(* form one longer word, exactly as their characters do in the string, so  *)
(* the regular expressions of the source are evaluated atom by atom with   *)
(* the same word boundaries, whitespace runs and digit runs.               *)
(***************************************************************************)
EXTENDS Integers, Sequences, FiniteSets

\* ------------------------------------------------------------------------
\* Bounds and program constants
\* ------------------------------------------------------------------------

\* the largest limit / offset value a request carries (two decimal digits)
MaxNum == 10

\* the largest number tried in a trailing clause when a property ranges
\* over the clauses a text may end with
MaxClauseNum == 25

DEFAULT_QUERY_LIMIT == 500

MAX_UNLIMITED_ROWS == 100000

LARGE_RESULT_THRESHOLD == 10000

\* an optional number that is absent (TypeScript `undefined`)
Undefined == -1

\* the largest result set a Load-More sequence pages through, the largest
\* page size it asks for, and the number of requests it is followed for
MaxRows == 4

MaxPageLimit == 2

MaxPages == MaxRows + 2

\* ------------------------------------------------------------------------
\* Character classes of the regular expressions
\* ------------------------------------------------------------------------

Digits == <<"0", "1", "2", "3", "4", "5", "6", "7", "8", "9">>

\* \d
IsDigit(t) == \E i \in 1..10 : Digits[i] = t

\* \s
IsSpace(t) == t \in {" ", "\n"}

\* String.prototype.toUpperCase, and the i flag of the patterns
Upper(t) ==
  CASE t = "select" -> "SELECT"
    [] t = "limit" -> "LIMIT"
    [] t = "offset" -> "OFFSET"
    [] t = "x" -> "X"
    [] OTHER -> t

Keywords ==
  {"SELECT", "INSERT", "UPDATE", "DELETE", "CREATE", "ALTER", "DROP",
   "TRUNCATE", "WITH", "LIMIT", "OFFSET", "UNION"}

\* \w : an atom made of word characters
IsWord(t) == Upper(t) \in Keywords \/ Upper(t) = "X" \/ IsDigit(t)

\* String.prototype.trim
RECURSIVE TrimLeft(_)
TrimLeft(s) ==
  IF s # <<>> /\ IsSpace(Head(s)) THEN TrimLeft(Tail(s)) ELSE s

RECURSIVE TrimRight(_)
TrimRight(s) ==
  IF s # <<>> /\ IsSpace(s[Len(s)])
  THEN TrimRight(SubSeq(s, 1, Len(s) - 1))
  ELSE s

trim(s) == TrimRight(TrimLeft(s))

\* the position after a maximal run of whitespace starting at i  (\s*)
RECURSIVE SkipSpaces(_, _)
SkipSpaces(s, i) ==
  IF i <= Len(s) /\ IsSpace(s[i]) THEN SkipSpaces(s, i + 1) ELSE i

\* the position after a maximal run of digits starting at i  (\d+ when > i)
RECURSIVE SkipDigits(_, _)
SkipDigits(s, i) ==
  IF i <= Len(s) /\ IsDigit(s[i]) THEN SkipDigits(s, i + 1) ELSE i

\* \bK at position p, case-insensitive: the keyword starts a word
WordStartsAt(s, p, K) ==
  /\ p >= 1 /\ p <= Len(s)
  /\ Upper(s[p]) = K
  /\ (p = 1 \/ ~IsWord(s[p - 1]))

\* \bK\b at position p
KeywordAt(s, p, K) ==
  /\ WordStartsAt(s, p, K)
  /\ (p = Len(s) \/ ~IsWord(s[p + 1]))

\* /\bK\b/i.test(s)
HasKeyword(s, K) == \E p \in 1..Len(s) : KeywordAt(s, p, K)

\* /^\s*K\b/i.test(s)
StartsWithKeyword(s, K) == KeywordAt(s, SkipSpaces(s, 1), K)

\* faulty variant: the pattern without its optional semicolon  (\s*$)
TailMatchesNoSemicolon(s, e) == SkipSpaces(s, e) > Len(s)

\* \s*;?\s*$ matches from position e to the end of s
TailMatches(s, e) ==
  LET a == SkipSpaces(s, e)
  IN  \/ a > Len(s)
      \/ /\ s[a] = ";"
         /\ SkipSpaces(s, a + 1) > Len(s)

\* parseInt of a run of decimal digits
RECURSIVE parseInt(_)
parseInt(d) ==
  IF d = <<>> THEN 0
  ELSE 10 * parseInt(SubSeq(d, 1, Len(d) - 1))
       + (CHOOSE v \in 0..9 : Digits[v + 1] = d[Len(d)])

\* `${n}` for a natural number n: its decimal digits
RECURSIVE formatNumber(_)
formatNumber(n) ==
  IF n < 10 THEN <<Digits[n + 1]>>
  ELSE Append(formatNumber(n \div 10), Digits[(n % 10) + 1])

\* ------------------------------------------------------------------------
\* analyzeQuery
\* ------------------------------------------------------------------------

NoMatch == [matched |-> FALSE, index |-> 0, g1 |-> <<>>, g2 |-> <<>>, g3 |-> <<>>]

\* the least element of a nonempty set of positions
Leftmost(ps) == CHOOSE p \in ps : \A q \in ps : p <= q

\* where the pieces of a clause that starts at p end: a after LIMIT\s+,
\* b after (\d+), c after \s*, d after the comma or OFFSET and \s*, e after
\* the second (\d+)
ClausePositions(s, p) ==
  LET a == SkipSpaces(s, p + 1)
      b == SkipDigits(s, a)
      c == SkipSpaces(s, b)
      d == SkipSpaces(s, c + 1)
  IN  [a |-> a, b |-> b, c |-> c, d |-> d, e |-> SkipDigits(s, d)]

\* the alternative \s*,\s*(\d+) followed by \s*;?\s*$
CommaFormMatches(s, q) ==
  /\ q.c <= Len(s) /\ s[q.c] = ","
  /\ q.e > q.d
  /\ TailMatches(s, q.e)

\* the alternative \s+OFFSET\s+(\d+) followed by \s*;?\s*$
OffsetFormMatches(s, q) ==
  /\ q.c > q.b /\ q.c <= Len(s) /\ Upper(s[q.c]) = "OFFSET"
  /\ q.d > q.c + 1
  /\ q.e > q.d
  /\ TailMatches(s, q.e)

LimitMatchWith(s, p, q) ==
  IF ~(WordStartsAt(s, p, "LIMIT") /\ q.a > p + 1 /\ q.b > q.a) THEN NoMatch
  ELSE IF CommaFormMatches(s, q)
    THEN [matched |-> TRUE, index |-> p, g1 |-> SubSeq(s, q.a, q.b - 1),
          g2 |-> SubSeq(s, q.d, q.e - 1), g3 |-> <<>>]
  ELSE IF OffsetFormMatches(s, q)
    THEN [matched |-> TRUE, index |-> p, g1 |-> SubSeq(s, q.a, q.b - 1),
          g2 |-> <<>>, g3 |-> SubSeq(s, q.d, q.e - 1)]
  ELSE IF TailMatches(s, q.b)
    THEN [matched |-> TRUE, index |-> p, g1 |-> SubSeq(s, q.a, q.b - 1),
          g2 |-> <<>>, g3 |-> <<>>]
  ELSE NoMatch

\* /\bLIMIT\s+(\d+)(?:\s*,\s*(\d+)|\s+OFFSET\s+(\d+))?\s*;?\s*$/i tried at p
LimitMatchAt(s, p) == LimitMatchWith(s, p, ClausePositions(s, p))

\* String.prototype.match: the leftmost position where the pattern matches
RECURSIVE limitMatchFrom(_, _)
limitMatchFrom(s, p) ==
  IF p > Len(s) THEN NoMatch
  ELSE IF WordStartsAt(s, p, "LIMIT") THEN
    (IF LimitMatchAt(s, p).matched THEN LimitMatchAt(s, p)
     ELSE limitMatchFrom(s, p + 1))
  ELSE limitMatchFrom(s, p + 1)

limitMatch(s) == limitMatchFrom(s, 1)

OffsetMatchWith(s, p, a, b) ==
  IF /\ WordStartsAt(s, p, "OFFSET") /\ a > p + 1 /\ b > a
     /\ TailMatches(s, b)
  THEN [matched |-> TRUE, index |-> p, g1 |-> SubSeq(s, a, b - 1),
        g2 |-> <<>>, g3 |-> <<>>]
  ELSE NoMatch

\* /\bOFFSET\s+(\d+)\s*;?\s*$/i tried at p
OffsetMatchAt(s, p) ==
  OffsetMatchWith(s, p, SkipSpaces(s, p + 1),
                  SkipDigits(s, SkipSpaces(s, p + 1)))

RECURSIVE offsetMatchFrom(_, _)
offsetMatchFrom(s, p) ==
  IF p > Len(s) THEN NoMatch
  ELSE IF WordStartsAt(s, p, "OFFSET") THEN
    (IF OffsetMatchAt(s, p).matched THEN OffsetMatchAt(s, p)
     ELSE offsetMatchFrom(s, p + 1))
  ELSE offsetMatchFrom(s, p + 1)

offsetOnlyMatch(s) == offsetMatchFrom(s, 1)

\* .replace(/--[^\n]*/g, ' ') of preprocessSql (alias extractor)
RECURSIVE removeLineComments(_)
removeLineComments(s) ==
  IF s = <<>> THEN <<>>
  ELSE IF Head(s) = "--"
    THEN LET ends == {i \in 2..Len(s) : s[i] = "\n"}
             stop == IF ends = {} THEN Len(s) + 1
                     ELSE CHOOSE i \in ends : \A j \in ends : i <= j
         IN  <<" ">> \o removeLineComments(SubSeq(s, stop, Len(s)))
  ELSE <<Head(s)>> \o removeLineComments(Tail(s))

\* .replace(/'(?:[^'\\]|\\.)*'/g, "''") of preprocessSql
RECURSIVE replaceStringLiterals(_)
replaceStringLiterals(s) ==
  IF s = <<>> THEN <<>>
  ELSE IF Head(s) = "'" /\ \E i \in 2..Len(s) : s[i] = "'"
    THEN LET closes == {i \in 2..Len(s) : s[i] = "'"}
             close == CHOOSE i \in closes : \A j \in closes : i <= j
         IN  <<"'", "'">>
               \o replaceStringLiterals(SubSeq(s, close + 1, Len(s)))
  ELSE <<Head(s)>> \o replaceStringLiterals(Tail(s))

\* preprocessSql: comments removed, string literals replaced by ''
preprocessSql(s) == replaceStringLiterals(removeLineComments(s))

\* trimmed.replace(/\s+/g, ' ').toUpperCase()
RECURSIVE normalize(_)
normalize(s) ==
  IF s = <<>> THEN <<>>
  ELSE IF IsSpace(Head(s))
    THEN <<" ">> \o normalize(SubSeq(s, SkipSpaces(s, 1), Len(s)))
  ELSE <<Upper(Head(s))>> \o normalize(Tail(s))

\* faulty variant: every text that begins with WITH is a SELECT
queryTypeWithAlways(trimmed) ==
  IF StartsWithKeyword(trimmed, "SELECT") THEN "SELECT"
  ELSE IF StartsWithKeyword(trimmed, "INSERT") THEN "INSERT"
  ELSE IF StartsWithKeyword(trimmed, "UPDATE") THEN "UPDATE"
  ELSE IF StartsWithKeyword(trimmed, "DELETE") THEN "DELETE"
  ELSE IF \E K \in {"CREATE", "ALTER", "DROP", "TRUNCATE"} :
            StartsWithKeyword(trimmed, K) THEN "DDL"
  ELSE IF StartsWithKeyword(trimmed, "WITH") THEN "SELECT"
  ELSE "OTHER"

\* Query type detection
queryType(trimmed) ==
  IF StartsWithKeyword(trimmed, "SELECT") THEN "SELECT"
  ELSE IF StartsWithKeyword(trimmed, "INSERT") THEN "INSERT"
  ELSE IF StartsWithKeyword(trimmed, "UPDATE") THEN "UPDATE"
  ELSE IF StartsWithKeyword(trimmed, "DELETE") THEN "DELETE"
  ELSE IF \E K \in {"CREATE", "ALTER", "DROP", "TRUNCATE"} :
            StartsWithKeyword(trimmed, K) THEN "DDL"
  ELSE IF StartsWithKeyword(trimmed, "WITH") /\ HasKeyword(trimmed, "SELECT")
    THEN "SELECT"
  ELSE "OTHER"

\* faulty variant: the comma form read as LIMIT count, offset
extractLimitCountFirst(lm) ==
  IF lm.g2 # <<>>
  THEN [limit |-> parseInt(lm.g1), offset |-> parseInt(lm.g2)]
  ELSE [limit |-> parseInt(lm.g1),
        offset |-> IF lm.g3 # <<>> THEN parseInt(lm.g3) ELSE Undefined]

\* the numbers captured by limitMatch: LIMIT offset, count (MySQL style) or
\* LIMIT count [OFFSET offset]
extractLimit(lm) ==
  IF lm.g2 # <<>>
  THEN [limit |-> parseInt(lm.g2), offset |-> parseInt(lm.g1)]
  ELSE [limit |-> parseInt(lm.g1),
        offset |-> IF lm.g3 # <<>> THEN parseInt(lm.g3) ELSE Undefined]

\* the descriptor, from the trimmed text, the normalized text, the LIMIT
\* match, its numbers, and the OFFSET match tried when no LIMIT matched
ParsedQueryInfo(trimmed, normalized, lm, found, om) ==
  [type |-> queryType(trimmed),
   hasLimit |-> lm.matched,
   existingLimit |-> found.limit,
   hasOffset |-> IF lm.matched THEN found.offset # Undefined ELSE om.matched,
   existingOffset |-> IF om.matched THEN parseInt(om.g1) ELSE found.offset,
   isUnion |-> HasKeyword(normalized, "UNION"),
   hasCTE |-> StartsWithKeyword(trimmed, "WITH"),
   hasSubquery |->
     Cardinality({p \in 1..Len(normalized) :
                    KeywordAt(normalized, p, "SELECT")}) > 1]

analyzeMatched(trimmed, lm) ==
  ParsedQueryInfo(trimmed, normalize(trimmed), lm,
                  IF lm.matched THEN extractLimit(lm)
                  ELSE [limit |-> Undefined, offset |-> Undefined],
                  IF lm.matched THEN NoMatch ELSE offsetOnlyMatch(trimmed))

analyzeTrimmed(trimmed) == analyzeMatched(trimmed, limitMatch(trimmed))

analyzeQuery(sql) == analyzeTrimmed(trim(sql))

\* ------------------------------------------------------------------------
\* applyQueryLimit
\* ------------------------------------------------------------------------

\* the text before the first position, or all of it when there is none
\* (.replace(pattern, '') of a pattern anchored at the end)
RemoveFrom(s, ps) ==
  IF ps = {} THEN s ELSE SubSeq(s, 1, Leftmost(ps) - 1)

\* .replace(/\bLIMIT\s+\d+\s*,\s*\d+\s*;?\s*$/i, '').trim()
stripCommaLimit(s) ==
  trim(RemoveFrom(s, {p \in 1..Len(s) :
                        /\ WordStartsAt(s, p, "LIMIT")
                        /\ LimitMatchAt(s, p).g2 # <<>>}))

\* faulty variant: the standard clause is left in place
stripStandardLimitKept(s) == trim(s)

\* faulty variant: the pattern is not anchored at the end, the text is cut
\* at its first LIMIT word
stripStandardLimitUnanchored(s) ==
  trim(RemoveFrom(s, {p \in 1..Len(s) : WordStartsAt(s, p, "LIMIT")}))

\* .replace(/\bLIMIT\s+\d+(?:\s+OFFSET\s+\d+)?\s*;?\s*$/i, '').trim()
stripStandardLimit(s) ==
  trim(RemoveFrom(s, {p \in 1..Len(s) :
                        /\ WordStartsAt(s, p, "LIMIT")
                        /\ LimitMatchAt(s, p).g1 # <<>>
                        /\ LimitMatchAt(s, p).g2 = <<>>}))

\* faulty variant: the OFFSET is always written
limitClauseAlwaysOffset(limit, offset) ==
  <<"LIMIT", " ">> \o formatNumber(limit)
    \o <<" ", "OFFSET", " ">> \o formatNumber(offset)

\* faulty variant: a limit of 0 falls back to the default  (limit || 500)
limitClauseZeroDefault(limit, offset) ==
  IF offset > 0
  THEN <<"LIMIT", " ">>
         \o formatNumber(IF limit = 0 THEN DEFAULT_QUERY_LIMIT ELSE limit)
         \o <<" ", "OFFSET", " ">> \o formatNumber(offset)
  ELSE <<"LIMIT", " ">>
         \o formatNumber(IF limit = 0 THEN DEFAULT_QUERY_LIMIT ELSE limit)

\* offset > 0 ? `LIMIT ${limit} OFFSET ${offset}` : `LIMIT ${limit}`
limitClause(limit, offset) ==
  IF offset > 0
  THEN <<"LIMIT", " ">> \o formatNumber(limit)
         \o <<" ", "OFFSET", " ">> \o formatNumber(offset)
  ELSE <<"LIMIT", " ">> \o formatNumber(limit)

\* x || 0 for an optional number
OrZero(x) == IF x = Undefined THEN 0 ELSE x

\* faulty variant: the trimmed text is returned
unchangedResultTrimmed(sql) ==
  [sql |-> trim(sql), wasLimited |-> FALSE, originalLimit |-> Undefined,
   appliedLimit |-> 0, appliedOffset |-> 0]

\* the result for a statement that is not a SELECT
unchangedResult(sql) ==
  [sql |-> sql, wasLimited |-> FALSE, originalLimit |-> Undefined,
   appliedLimit |-> 0, appliedOffset |-> 0]

\* faulty variant: the existing offset is not reported
preservedResultNoOffset(sql, info) ==
  [sql |-> sql, wasLimited |-> FALSE,
   originalLimit |-> info.existingLimit,
   appliedLimit |-> OrZero(info.existingLimit),
   appliedOffset |-> 0]

\* the result for a SELECT whose own LIMIT is kept
preservedResult(sql, info) ==
  [sql |-> sql, wasLimited |-> FALSE,
   originalLimit |-> info.existingLimit,
   appliedLimit |-> OrZero(info.existingLimit),
   appliedOffset |-> OrZero(info.existingOffset)]

\* faulty variant: no space is put between the text and the clause
appendClauseNoSpace(modifiedSql, clause) ==
  IF modifiedSql # <<>> /\ modifiedSql[Len(modifiedSql)] = ";"
  THEN trim(SubSeq(modifiedSql, 1, Len(modifiedSql) - 1))
         \o clause \o <<";">>
  ELSE modifiedSql \o clause

\* modifiedSql once the existing clause is removed: the semicolon is taken
\* off, the clause appended and the semicolon put back
appendClause(modifiedSql, clause) ==
  IF modifiedSql # <<>> /\ modifiedSql[Len(modifiedSql)] = ";"
  THEN trim(SubSeq(modifiedSql, 1, Len(modifiedSql) - 1))
         \o <<" ">> \o clause \o <<";">>
  ELSE modifiedSql \o <<" ">> \o clause

\* the statement with its trailing clause replaced or appended
rewriteSql(sql, info, limit, offset, forceLimit) ==
  appendClause(IF info.hasLimit /\ forceLimit
               THEN stripStandardLimit(stripCommaLimit(trim(sql)))
               ELSE trim(sql),
               limitClause(limit, offset))

applyWithInfo(sql, info, limit, offset, forceLimit) ==
  IF info.type # "SELECT" THEN unchangedResult(sql)
  ELSE IF info.hasLimit /\ ~forceLimit THEN preservedResult(sql, info)
  ELSE [sql |-> rewriteSql(sql, info, limit, offset, forceLimit),
        wasLimited |-> TRUE,
        originalLimit |-> info.existingLimit,
        appliedLimit |-> limit, appliedOffset |-> offset]

applyQueryLimit(sql, limit, offset, forceLimit) ==
  applyWithInfo(sql, analyzeQuery(sql), limit, offset, forceLimit)

\* ------------------------------------------------------------------------
\* The SQL texts submitted: head, body, trailing clause region, terminator
\* ------------------------------------------------------------------------

\* heads of statements that read: SELECT in both cases, after whitespace,
\* and a WITH clause
ReadHeads == {<<"SELECT">>, <<"select">>, <<" ", "SELECT">>, <<"WITH">>}

\* heads of the other statements, of words that only begin like SELECT, of a
\* parenthesised SELECT, and no head at all
OtherHeads ==
  {<<>>, <<"SELECT", "x">>, <<"(", "SELECT">>, <<"INSERT">>, <<"UPDATE">>,
   <<"DELETE">>, <<"CREATE">>, <<"ALTER">>, <<"DROP">>, <<"TRUNCATE">>,
   <<"x">>}

\* a column list, a string literal, a subquery or CTE body with its own
\* LIMIT, a UNION branch, a CTE body followed by a write
Bodies ==
  {<<>>,
   <<" ", "x">>,
   <<" ", "x", " ", "'", "LIMIT", " ", "1", "'">>,
   <<" ", "(", "SELECT", " ", "x", " ", "LIMIT", " ", "1", ")">>,
   <<" ", "x", " ", "UNION", " ", "SELECT", " ", "x">>,
   <<" ", "(", "SELECT", ")", " ", "DELETE", " ", "x">>}

OtherBodies ==
  {<<>>, <<" ", "x">>,
   <<" ", "(", "SELECT", " ", "x", " ", "LIMIT", " ", "1", ")">>}

\* what the text ends with before its terminator
Trailers ==
  {<<>>,
   <<" ", "LIMIT", " ", "1">>,
   <<"\n", "limit", "\n", "2", "5">>,
   <<" ", "LIMIT", " ", "3", " ", "OFFSET", " ", "4">>,
   <<" ", "LIMIT", " ", "0", "7", " ", "offset", " ", "0">>,
   <<" ", "LIMIT", " ", "5", ",", "2", "0">>,
   <<" ", "LIMIT", " ", "5", " ", ",", " ", "2", "0">>,
   <<" ", "OFFSET", " ", "4">>,
   <<" ", "OFFSET", " ", "4", " ", "LIMIT", " ", "1">>,
   <<" ", "--", " ", "LIMIT", " ", "9">>,
   <<" ", "x", "LIMIT", " ", "1">>,
   <<" ", "LIMIT", " ", "1", "x">>,
   <<" ", "LIMIT", " ", "1", " ", "LIMIT", " ", "2">>,
   <<" ", "LIMIT", " ", "2", "0", "0", "0", "0", "0">>}

OtherTrailers ==
  {<<>>, <<" ", "LIMIT", " ", "1">>,
   <<" ", "LIMIT", " ", "3", " ", "OFFSET", " ", "4">>}

Terminators == {<<>>, <<";">>, <<" ">>, <<" ", ";", " ">>, <<";", ";">>}

OtherTerminators == {<<>>, <<";">>, <<" ">>}

Texts ==
  {h \o b \o t \o e : h \in ReadHeads, b \in Bodies, t \in Trailers,
                      e \in Terminators}
  \cup
  {h \o b \o t \o e : h \in OtherHeads, b \in OtherBodies,
                      t \in OtherTrailers, e \in OtherTerminators}

\* the limit and offset values a request carries
Nums == {0, MaxNum}

Offsets == {0, MaxNum}

\* ------------------------------------------------------------------------
\* State
\* ------------------------------------------------------------------------

VARIABLES
  sql,       \* the SQL text submitted
  pc,        \* which operation has been applied to it
  info,      \* analyzeQuery(sql)
  infoSemi,  \* analyzeQuery(sql + ";")
  req,       \* arguments of the applyQueryLimit call
  res,       \* its LimitedQueryResult
  req2,      \* arguments of a second, forced call on res.sql
  res2,      \* its LimitedQueryResult
  info2,     \* analyzeQuery(res.sql)
  options,   \* the options of the request to the query route
  resp,      \* the query route's response and the statement it executed
  dbType,      \* the estimate request's connection.type, "none" if absent
  estimatePc,  \* the estimate handler's position
  dbCalls,     \* the calls the estimate handler made to the database layer
  reply,       \* what the EXPLAIN statement returned
  estimate,    \* the estimate route's response
  plan,        \* the plan prop of VisualExplain: a list of plan entries
  planPc,      \* whether the component has analyzed it
  analysis,    \* the PlanAnalysis the component holds
  rowCount,    \* how many rows the paged SELECT yields with no trailing clause
  pages,       \* how many requests the Load-More sequence has made
  delivered    \* the rows its responses carried, by their position

limiterVars ==
  <<sql, pc, info, infoSemi, req, res, req2, res2, info2, options, resp>>

estimateVars == <<dbType, estimatePc, dbCalls, reply, estimate>>

planVars == <<plan, planPc, analysis>>

loadVars == <<rowCount, pages, delivered>>

vars == <<limiterVars, estimateVars, planVars, loadVars>>

NoInfo ==
  [type |-> "none", hasLimit |-> FALSE, existingLimit |-> Undefined,
   hasOffset |-> FALSE, existingOffset |-> Undefined, isUnion |-> FALSE,
   hasCTE |-> FALSE, hasSubquery |-> FALSE]

NoReq == [limit |-> Undefined, offset |-> Undefined, forceLimit |-> FALSE]

NoRes ==
  [sql |-> <<>>, wasLimited |-> FALSE, originalLimit |-> Undefined,
   appliedLimit |-> Undefined, appliedOffset |-> Undefined]

\* options with nothing set
NoOptions == [limit |-> Undefined, offset |-> Undefined, unlimited |-> FALSE]

NoResp ==
  [status |-> 0, executed |-> FALSE, finalSql |-> <<>>,
   limit |-> Undefined, offset |-> Undefined, hasMore |-> FALSE,
   totalReturned |-> Undefined, wasLimited |-> FALSE]

\* no EXPLAIN result: hasPlan is rows[0]['QUERY PLAN'][0].Plan being
\* there, planRows its 'Plan Rows', steps the `rows` column of each row of
\* a MySQL EXPLAIN
NoReply == [hasPlan |-> FALSE, planRows |-> Undefined, steps |-> <<>>]

NoEstimate ==
  [status |-> 0, estimatedRows |-> Undefined, isLargeResult |-> FALSE,
   warning |-> <<>>, error |-> ""]

\* no estimate request is under way
EstimateIdle ==
  /\ dbType = "none"
  /\ estimatePc = "idle"
  /\ dbCalls = <<>>
  /\ reply = NoReply
  /\ estimate = NoEstimate

\* a plan node that is not there (undefined / null); a field that is not
\* there is Undefined, <<>> or ""; times are in microseconds
NoNode ==
  [present |-> FALSE, nodeType |-> <<>>, actualRows |-> Undefined,
   planRows |-> Undefined, actualTime |-> Undefined,
   totalCost |-> Undefined, sharedHitBlocks |-> Undefined,
   sharedReadBlocks |-> Undefined, relationName |-> "",
   actualLoops |-> Undefined, Plans |-> <<>>]

\* no PlanAnalysis (null)
NoAnalysis ==
  [present |-> FALSE, totalTime |-> 0, planningTime |-> 0,
   executionTime |-> 0, totalRows |-> 0, totalCost |-> 0,
   bufferHits |-> 0, bufferReads |-> 0, nodeCount |-> 0,
   warnings |-> <<>>, insights |-> <<>>]

\* no plan is on display
PlanIdle ==
  /\ plan = <<>>
  /\ planPc = "idle"
  /\ analysis = NoAnalysis

\* no Load-More sequence is under way
LoadIdle ==
  /\ rowCount = 0
  /\ pages = 0
  /\ delivered = <<>>

\* no statement is being classified, rewritten or run
LimiterIdle ==
  /\ info = NoInfo
  /\ infoSemi = NoInfo
  /\ req = NoReq
  /\ res = NoRes
  /\ req2 = NoReq
  /\ res2 = NoRes
  /\ info2 = NoInfo
  /\ options = NoOptions
  /\ resp = NoResp

Init ==
  /\ sql \in Texts
  /\ pc = "input"
  /\ LimiterIdle
  /\ EstimateIdle
  /\ PlanIdle
  /\ LoadIdle

\* ------------------------------------------------------------------------
\* Operations
\* ------------------------------------------------------------------------

\* analyzeQuery(sql)
Analyze ==
  /\ pc = "input"
  /\ info' = analyzeQuery(sql)
  /\ pc' = "analyzed"
  /\ UNCHANGED <<sql, infoSemi, req, res, req2, res2, info2, options, resp>>
  /\ UNCHANGED <<estimateVars, planVars, loadVars>>

\* analyzeQuery of the same text terminated by a semicolon
AnalyzeTerminated ==
  /\ pc = "analyzed"
  /\ infoSemi' = analyzeQuery(Append(sql, ";"))
  /\ pc' = "compared"
  /\ UNCHANGED <<sql, info, req, res, req2, res2, info2, options, resp>>
  /\ UNCHANGED <<estimateVars, planVars, loadVars>>

\* applyQueryLimit(sql, limit, offset, { forceLimit })
Limit ==
  /\ pc = "input"
  /\ \E limit \in Nums, offset \in Offsets, forceLimit \in BOOLEAN :
       /\ req' = [limit |-> limit, offset |-> offset,
                  forceLimit |-> forceLimit]
       /\ res' = applyQueryLimit(sql, limit, offset, forceLimit)
  /\ pc' = "limited"
  /\ UNCHANGED <<sql, info, infoSemi, req2, res2, info2, options, resp>>
  /\ UNCHANGED <<estimateVars, planVars, loadVars>>

\* applyQueryLimit(res.sql, limit, offset, { forceLimit: true }) on the
\* result of a forced call
Relimit ==
  /\ pc = "limited"
  /\ req.forceLimit
  /\ \E limit \in Nums, offset \in Offsets :
       /\ req2' = [limit |-> limit, offset |-> offset, forceLimit |-> TRUE]
       /\ res2' = applyQueryLimit(res.sql, limit, offset, TRUE)
  /\ pc' = "relimited"
  /\ UNCHANGED <<sql, info, infoSemi, req, res, info2, options, resp>>
  /\ UNCHANGED <<estimateVars, planVars, loadVars>>

\* analyzeQuery(res.sql), then applyQueryLimit(res.sql, limit, offset) with
\* no forceLimit, on a result that was limited
Reapply ==
  /\ pc = "limited"
  /\ res.wasLimited
  /\ info2' = analyzeQuery(res.sql)
  /\ \E limit \in Nums, offset \in Offsets :
       /\ req2' = [limit |-> limit, offset |-> offset, forceLimit |-> FALSE]
       /\ res2' = applyQueryLimit(res.sql, limit, offset, FALSE)
  /\ pc' = "reapplied"
  /\ UNCHANGED <<sql, info, infoSemi, req, res, options, resp>>
  /\ UNCHANGED <<estimateVars, planVars, loadVars>>

\* the outcomes of provider.query: a number of rows, or a thrown error
DbErrors == {"QueryError", "TimeoutError", "Error"}

\* the rows provider.query(finalSql) returns from a result set of rowCount
\* rows, each row named by its position: the database skips the OFFSET of
\* the trailing clause and stops after its LIMIT
queryRows(first, last) ==
  [k \in 1..(IF last >= first THEN last - first + 1 ELSE 0) |-> first + k - 1]

lastRow(queryInfo) ==
  IF queryInfo.hasLimit
       /\ OrZero(queryInfo.existingOffset) + queryInfo.existingLimit < rowCount
  THEN OrZero(queryInfo.existingOffset) + queryInfo.existingLimit
  ELSE rowCount

providerQuery(finalSql) ==
  queryRows(OrZero(analyzeQuery(finalSql).existingOffset) + 1,
            lastRow(analyzeQuery(finalSql)))

\* result.rows.length: as many rows as the limit asked for, none, or the
\* rows of the result set the trailing clause selects
RowsReturned(outcome, effectiveLimit, finalSql) ==
  IF outcome = "full" THEN effectiveLimit
  ELSE IF outcome = "rows" THEN Len(providerQuery(finalSql))
  ELSE 0

\* the response once the statement is chosen and provider.query has
\* returned rows or thrown
RouteResponse(finalSql, wasLimited, effectiveLimit, offset, outcome) ==
  IF outcome \in DbErrors
  THEN [NoResp EXCEPT
          !.status = IF outcome = "QueryError" THEN 400
                     ELSE IF outcome = "TimeoutError" THEN 408 ELSE 500,
          !.executed = TRUE, !.finalSql = finalSql]
  ELSE [status |-> 200, executed |-> TRUE, finalSql |-> finalSql,
        limit |-> effectiveLimit, offset |-> offset,
        hasMore |-> RowsReturned(outcome, effectiveLimit, finalSql)
                      = effectiveLimit,
        totalReturned |-> RowsReturned(outcome, effectiveLimit, finalSql),
        wasLimited |-> wasLimited]

\* the statement sent to the provider: only a SELECT goes through
\* applyQueryLimit
RouteLimited(queryInfo, limitResult, effectiveLimit, offset, outcome) ==
  IF queryInfo.type = "SELECT"
  THEN RouteResponse(limitResult.sql, limitResult.wasLimited,
                     effectiveLimit, offset, outcome)
  ELSE RouteResponse(sql, FALSE, effectiveLimit, offset, outcome)

RouteWithOptions(effectiveLimit, offset, outcome) ==
  RouteLimited(analyzeQuery(sql),
               applyQueryLimit(sql, effectiveLimit, offset, FALSE),
               effectiveLimit, offset, outcome)

\* faulty variant: the statement is run only once its estimate has come
\* back and is not large
QueryRouteGated(connection, optLimit, optOffset, unlimited, outcome) ==
  IF ~connection \/ sql = <<>>
  THEN [NoResp EXCEPT !.status = 400]
  ELSE IF estimate.status # 200 \/ estimate.isLargeResult
  THEN [NoResp EXCEPT !.status = 500]
  ELSE RouteWithOptions(
         IF unlimited THEN MAX_UNLIMITED_ROWS
         ELSE IF optLimit = Undefined THEN DEFAULT_QUERY_LIMIT ELSE optLimit,
         IF optOffset = Undefined THEN 0 ELSE optOffset,
         outcome)

\* faulty variant: options.unlimited is not read
QueryRouteLimitOnly(connection, optLimit, optOffset, unlimited, outcome) ==
  IF ~connection \/ sql = <<>>
  THEN [NoResp EXCEPT !.status = 400]
  ELSE RouteWithOptions(
         IF optLimit = Undefined THEN DEFAULT_QUERY_LIMIT ELSE optLimit,
         IF optOffset = Undefined THEN 0 ELSE optOffset,
         outcome)

\* POST /api/db/query
QueryRoute(connection, optLimit, optOffset, unlimited, outcome) ==
  IF ~connection \/ sql = <<>>
  THEN [NoResp EXCEPT !.status = 400]
  ELSE RouteWithOptions(
         IF unlimited THEN MAX_UNLIMITED_ROWS
         ELSE IF optLimit = Undefined THEN DEFAULT_QUERY_LIMIT ELSE optLimit,
         IF optOffset = Undefined THEN 0 ELSE optOffset,
         outcome)

Query ==
  /\ pc = "input"
  /\ \E connection \in BOOLEAN, optLimit \in {Undefined, 0, MaxNum},
        optOffset \in {Undefined, MaxNum}, unlimited \in BOOLEAN,
        outcome \in {"empty", "full"} \cup DbErrors :
       /\ options' = [limit |-> optLimit, offset |-> optOffset,
                      unlimited |-> unlimited]
       /\ resp' = QueryRoute(connection, optLimit, optOffset, unlimited,
                             outcome)
  /\ pc' = "responded"
  /\ UNCHANGED <<sql, info, infoSemi, req, res, req2, res2, info2>>
  /\ UNCHANGED <<estimateVars, planVars, loadVars>>

Next == Analyze \/ AnalyzeTerminated \/ Limit \/ Relimit \/ Reapply \/ Query

Spec == Init /\ [][Next]_vars

\* ------------------------------------------------------------------------
\* Load More: the same SELECT requested page after page
\* ------------------------------------------------------------------------

\* statements whose trailing clause the database and analyzeQuery read alike
LoadTexts ==
  {<<"SELECT", " ", "x">>,
   <<"SELECT", " ", "x", ";">>,
   <<"SELECT", " ", "x", " ", "LIMIT", " ", "2">>,
   <<"SELECT", " ", "x", " ", "LIMIT", " ", "1", " ", "OFFSET", " ", "1">>}

\* options.limit of the sequence: left out, or a page size
PageLimits == {Undefined} \cup 1..MaxPageLimit

LoadMoreInit ==
  /\ sql \in LoadTexts
  /\ pc = "load"
  /\ LimiterIdle
  /\ EstimateIdle
  /\ PlanIdle
  /\ rowCount \in 0..MaxRows
  /\ pages = 0
  /\ delivered = <<>>

\* the initial query: offset 0
LoadFirst ==
  /\ pc = "load"
  /\ pages = 0
  /\ \E limit \in PageLimits :
       /\ options' = [limit |-> limit, offset |-> 0, unlimited |-> FALSE]
       /\ resp' = QueryRoute(TRUE, limit, 0, FALSE, "rows")
  /\ delivered' = providerQuery(resp'.finalSql)
  /\ pages' = 1
  /\ UNCHANGED <<sql, pc, info, infoSemi, req, res, req2, res2, info2>>
  /\ UNCHANGED <<rowCount, estimateVars, planVars>>

\* Load More: the response said hasMore, the same statement is requested
\* with the offset moved on by the page limit and its rows are appended
LoadMore ==
  /\ pc = "load"
  /\ pages > 0
  /\ pages < MaxPages
  /\ resp.status = 200
  /\ resp.hasMore
  /\ options' = [options EXCEPT !.offset = options.offset + resp.limit]
  /\ resp' = QueryRoute(TRUE, options.limit, options.offset + resp.limit,
                        FALSE, "rows")
  /\ delivered' = delivered \o providerQuery(resp'.finalSql)
  /\ pages' = pages + 1
  /\ UNCHANGED <<sql, pc, info, infoSemi, req, res, req2, res2, info2>>
  /\ UNCHANGED <<rowCount, estimateVars, planVars>>

LoadMoreNext == LoadFirst \/ LoadMore

LoadMoreSpec == LoadMoreInit /\ [][LoadMoreNext]_vars

\* ------------------------------------------------------------------------
\* POST /api/db/estimate
\* ------------------------------------------------------------------------

RECURSIVE Pow10(_)
Pow10(f) == IF f = 0 THEN 1 ELSE 10 * Pow10(f - 1)

\* the last f decimal digits of m, leading zeros kept
RECURSIVE FractionDigits(_, _)
FractionDigits(m, f) ==
  IF f = 0 THEN <<>>
  ELSE Append(FractionDigits(m \div 10, f - 1), Digits[(m % 10) + 1])

\* the digits of scaled / 10^f with f fraction digits
FixedDigits(scaled, f) ==
  IF f = 0 THEN formatNumber(scaled)
  ELSE formatNumber(scaled \div Pow10(f)) \o <<".">>
         \o FractionDigits(scaled % Pow10(f), f)

\* (num / den).toFixed(f): the nearest number with f fraction digits, the
\* larger one when num / den lies midway
toFixed(num, den, f) ==
  FixedDigits((2 * num * Pow10(f) + den) \div (2 * den), f)

\* formatNumber of the route
estimateFormatNumber(num) ==
  IF num >= 1000000 THEN toFixed(num, 1000000, 1) \o <<"M">>
  ELSE IF num >= 1000 THEN toFixed(num, 1000, 1) \o <<"K">>
  ELSE formatNumber(num)

\* the classes of error the handler tells apart: a QueryError, a
\* TimeoutError, another error isDatabaseError accepts, any other error
EstimateErrors == {"QueryError", "TimeoutError", "DatabaseError", "Error"}

\* faulty variant: every statement is taken for a SELECT
isSelectQueryAlways(s) == TRUE

\* isSelectQuery(sql)
isSelectQuery(s) == analyzeQuery(s).type = "SELECT"

\* `EXPLAIN (FORMAT JSON) ${sql}` and `EXPLAIN ${sql}`
explainSql(engine, s) ==
  IF engine = "postgres"
  THEN <<"EXPLAIN", " ", "(", "FORMAT", " ", "JSON", ")", " ">> \o s
  ELSE <<"EXPLAIN", " ">> \o s

\* parseInt(row.rows): the leading run of digits, NaN when there is none
parseIntLeading(v) ==
  IF v = <<>> \/ ~IsDigit(v[1]) THEN Undefined
  ELSE parseInt(SubSeq(v, 1, SkipDigits(v, 1) - 1))

\* result.rows.reduce((sum, row) => sum + (parseInt(row.rows) || 0), 0)
RECURSIVE sumStepRows(_)
sumStepRows(steps) ==
  IF steps = <<>> THEN 0
  ELSE sumStepRows(SubSeq(steps, 1, Len(steps) - 1))
         + OrZero(parseIntLeading(steps[Len(steps)]))

\* faulty variant: the estimate of the first step only
estimatedRowsFirstStep(engine, r) ==
  IF engine = "postgres"
  THEN (IF r.hasPlan THEN OrZero(r.planRows) ELSE 0)
  ELSE IF engine = "mysql"
  THEN (IF Len(r.steps) > 0 THEN OrZero(parseIntLeading(r.steps[1])) ELSE 0)
  ELSE 0

\* estimatedRows once the EXPLAIN statement has returned
estimatedRows(engine, r) ==
  IF engine = "postgres"
  THEN (IF r.hasPlan THEN OrZero(r.planRows) ELSE 0)
  ELSE IF engine = "mysql"
  THEN (IF Len(r.steps) > 0 THEN sumStepRows(r.steps) ELSE 0)
  ELSE 0

\* faulty variant: the threshold itself counts as large
estimateResponseInclusive(rows) ==
  [status |-> 200, estimatedRows |-> rows,
   isLargeResult |-> rows >= LARGE_RESULT_THRESHOLD,
   warning |-> IF rows >= LARGE_RESULT_THRESHOLD
               THEN <<"This query may return ~">>
                      \o estimateFormatNumber(rows)
                      \o <<" rows. Consider adding filters or using LIMIT.">>
               ELSE <<>>,
   error |-> ""]

\* the answer for an estimate
estimateResponse(rows) ==
  [status |-> 200, estimatedRows |-> rows,
   isLargeResult |-> rows > LARGE_RESULT_THRESHOLD,
   warning |-> IF rows > LARGE_RESULT_THRESHOLD
               THEN <<"This query may return ~">>
                      \o estimateFormatNumber(rows)
                      \o <<" rows. Consider adding filters or using LIMIT.">>
               ELSE <<>>,
   error |-> ""]

\* faulty variant: an error that is no database error is passed on
caughtResponseRethrown(error) ==
  IF error = "Error" THEN [NoEstimate EXCEPT !.status = 500]
  ELSE [NoEstimate EXCEPT !.status = 200, !.estimatedRows = 0,
          !.error = IF error = "TimeoutError" THEN "Estimate timed out"
                    ELSE "Could not estimate row count"]

\* the catch block
caughtResponse(error) ==
  [status |-> 200, estimatedRows |-> 0, isLargeResult |-> FALSE,
   warning |-> <<>>,
   error |-> IF error = "QueryError" THEN "Could not estimate row count"
             ELSE IF error = "TimeoutError" THEN "Estimate timed out"
             ELSE IF error = "DatabaseError"
             THEN "Could not estimate row count"
             ELSE ""]

\* the engines a connection names
EngineTypes == {"postgres", "mysql", "sqlite", "mongodb", "demo"}

\* the statements estimates are asked for
EstimateTexts ==
  {h \o b : h \in ReadHeads \cup OtherHeads,
            b \in {<<>>, <<" ", "x">>, <<" ", "x", " ", "LIMIT", " ", "1">>}}

\* the 'Plan Rows' a PostgreSQL plan carries
PlanRowCounts ==
  {Undefined, 0, LARGE_RESULT_THRESHOLD, LARGE_RESULT_THRESHOLD + 1, 2500000}

\* the `rows` column of a step of a MySQL EXPLAIN: a count or NULL
StepRowCounts ==
  {<<"6", "0", "0", "0">>, <<"4", "0", "0", "0">>, <<"4", "0", "0", "1">>,
   <<"0">>, <<"NULL">>}

MaxSteps == 2

\* what provider.query(explainSql) may return
ExplainReplies(engine) ==
  IF engine = "postgres"
  THEN {NoReply} \cup {[NoReply EXCEPT !.hasPlan = TRUE, !.planRows = n] :
                         n \in PlanRowCounts}
  ELSE {[NoReply EXCEPT !.steps = st] :
          st \in UNION {[1..n -> StepRowCounts] : n \in 0..MaxSteps}}

EstimateInit ==
  /\ sql \in EstimateTexts
  /\ pc = "estimate"
  /\ LimiterIdle
  /\ dbType \in EngineTypes \cup {"none"}
  /\ estimatePc = "received"
  /\ dbCalls = <<>>
  /\ reply = NoReply
  /\ estimate = NoEstimate
  /\ PlanIdle
  /\ LoadIdle

\* the handler up to its first await: the body is read and validated and
\* the statement classified
EstimateReceive ==
  /\ estimatePc = "received"
  /\ \E parsed \in BOOLEAN :
       IF ~parsed
       THEN /\ estimate' = caughtResponse("Error")
            /\ estimatePc' = "answered"
       ELSE IF dbType = "none" \/ sql = <<>>
       THEN /\ estimate' = [NoEstimate EXCEPT !.status = 400,
                              !.error = "Connection and SQL query are required"]
            /\ estimatePc' = "answered"
       ELSE IF ~isSelectQuery(sql)
       THEN /\ estimate' = [NoEstimate EXCEPT !.status = 200,
                              !.estimatedRows = 0]
            /\ estimatePc' = "answered"
       ELSE /\ estimate' = estimate
            /\ estimatePc' = "lookup"
  /\ UNCHANGED <<dbType, dbCalls, reply>>
  /\ UNCHANGED <<limiterVars, planVars, loadVars>>

\* await getOrCreateProvider(connection), and the engines no EXPLAIN is
\* issued for
EstimateLookup ==
  /\ estimatePc = "lookup"
  /\ \E error \in EstimateErrors \cup {"none"} :
       /\ dbCalls' = Append(dbCalls, [op |-> "getOrCreateProvider",
                                      sql |-> <<>>, threw |-> error])
       /\ IF error # "none"
          THEN /\ estimate' = caughtResponse(error)
               /\ estimatePc' = "answered"
          ELSE IF dbType \in {"postgres", "mysql"}
          THEN /\ estimate' = estimate
               /\ estimatePc' = "explain"
          ELSE /\ estimate' = estimateResponse(estimatedRows(dbType, reply))
               /\ estimatePc' = "answered"
  /\ UNCHANGED <<dbType, reply>>
  /\ UNCHANGED <<limiterVars, planVars, loadVars>>

\* await provider.query(explainSql) and the answer
EstimateExplain ==
  /\ estimatePc = "explain"
  /\ \/ \E error \in EstimateErrors :
          /\ dbCalls' = Append(dbCalls, [op |-> "query",
                                         sql |-> explainSql(dbType, sql),
                                         threw |-> error])
          /\ reply' = NoReply
          /\ estimate' = caughtResponse(error)
     \/ \E r \in ExplainReplies(dbType) :
          /\ dbCalls' = Append(dbCalls, [op |-> "query",
                                         sql |-> explainSql(dbType, sql),
                                         threw |-> "none"])
          /\ reply' = r
          /\ estimate' = estimateResponse(estimatedRows(dbType, r))
  /\ estimatePc' = "answered"
  /\ UNCHANGED dbType
  /\ UNCHANGED <<limiterVars, planVars, loadVars>>

EstimateNext == EstimateReceive \/ EstimateLookup \/ EstimateExplain

EstimateSpec == EstimateInit /\ [][EstimateNext]_vars

\* ------------------------------------------------------------------------
\* One user action: the query request and its estimate request, each sent
\* to its own route and handled in any order
\* ------------------------------------------------------------------------

UserActionInit ==
  /\ sql \in EstimateTexts
  /\ pc = "input"
  /\ LimiterIdle
  /\ dbType \in EngineTypes \cup {"none"}
  /\ estimatePc = "received"
  /\ dbCalls = <<>>
  /\ reply = NoReply
  /\ estimate = NoEstimate
  /\ PlanIdle
  /\ LoadIdle

UserActionNext ==
  Query \/ EstimateReceive \/ EstimateLookup \/ EstimateExplain

UserActionSpec == UserActionInit /\ [][UserActionNext]_vars

\* ------------------------------------------------------------------------
\* analyzePlan  (components/VisualExplain.tsx)
\* ------------------------------------------------------------------------

\* String.prototype.includes on a text of word and space atoms
includes(s, sub) ==
  \E i \in 0..(Len(s) - Len(sub)) : SubSeq(s, i + 1, i + Len(sub)) = sub

\* formatNumber of the component
planFormatNumber(num) ==
  IF num >= 1000000 THEN toFixed(num, 1000000, 1) \o <<"M">>
  ELSE IF num >= 1000 THEN toFixed(num, 1000, 1) \o <<"K">>
  ELSE toFixed(num, 1, 0)

\* formatTime(ms), of a time given in microseconds; "us" stands for the
\* micro sign and the letter s
formatTime(us) ==
  IF us >= 1000000 THEN toFixed(us, 1000000, 2) \o <<"s">>
  ELSE IF us >= 1000 THEN toFixed(us, 1000, 2) \o <<"ms">>
  ELSE toFixed(us, 1, 0) \o <<"us">>

\* faulty variant: a scan of exactly 10,000 rows is reported
seqScanWarningInclusive(node) ==
  IF includes(node.nodeType, <<"Seq", " ", "Scan">>)
     /\ OrZero(node.actualRows) >= 10000
  THEN <<[type |-> "warning", title |-> "Sequential Scan",
          description |->
            <<"Full table scan on \"",
              IF node.relationName = "" THEN "table"
              ELSE node.relationName,
              "\" (">>
              \o planFormatNumber(OrZero(node.actualRows))
              \o <<" rows). Consider adding an index.">>,
          node |-> node.nodeType]>>
  ELSE <<>>

\* the check for a sequential scan on a large table
seqScanWarning(node) ==
  IF includes(node.nodeType, <<"Seq", " ", "Scan">>)
     /\ OrZero(node.actualRows) > 10000
  THEN <<[type |-> "warning", title |-> "Sequential Scan",
          description |->
            <<"Full table scan on \"",
              IF node.relationName = "" THEN "table"
              ELSE node.relationName,
              "\" (">>
              \o planFormatNumber(OrZero(node.actualRows))
              \o <<" rows). Consider adding an index.">>,
          node |-> node.nodeType]>>
  ELSE <<>>

\* faulty variant: a ratio of exactly 10 or exactly 0.1 is reported
mismatchWarningInclusive(node) ==
  IF /\ OrZero(node.planRows) > 0
     /\ OrZero(node.actualRows) > 0
     /\ \/ node.actualRows >= 10 * node.planRows
        \/ 10 * node.actualRows <= node.planRows
  THEN <<[type |-> "info", title |-> "Estimate Mismatch",
          description |->
            <<"Expected ">> \o planFormatNumber(node.planRows)
              \o <<" rows, got ">> \o planFormatNumber(node.actualRows)
              \o <<". Statistics may be outdated.">>,
          node |-> node.nodeType]>>
  ELSE <<>>

\* the check for a row estimate mismatch: actualRows / planRows > 10 or
\* < 0.1
mismatchWarning(node) ==
  IF /\ OrZero(node.planRows) > 0
     /\ OrZero(node.actualRows) > 0
     /\ \/ node.actualRows > 10 * node.planRows
        \/ 10 * node.actualRows < node.planRows
  THEN <<[type |-> "info", title |-> "Estimate Mismatch",
          description |->
            <<"Expected ">> \o planFormatNumber(node.planRows)
              \o <<" rows, got ">> \o planFormatNumber(node.actualRows)
              \o <<". Statistics may be outdated.">>,
          node |-> node.nodeType]>>
  ELSE <<>>

\* the check for an expensive sort: more than 100 ms
sortWarning(node) ==
  IF includes(node.nodeType, <<"Sort">>)
     /\ OrZero(node.actualTime) > 100000
  THEN <<[type |-> "warning", title |-> "Expensive Sort",
          description |->
            <<"Sort operation took ">>
              \o formatTime(OrZero(node.actualTime))
              \o <<". Consider adding an index for ordered access.">>,
          node |-> node.nodeType]>>
  ELSE <<>>

\* node['Actual Loops'] ?? 1
actualLoops(node) ==
  IF node.actualLoops = Undefined THEN 1 ELSE node.actualLoops

\* faulty variant: a nested loop without a loop count is reported
loopWarningAbsentCounts(node) ==
  IF includes(node.nodeType, <<"Nested", " ", "Loop">>)
     /\ (node.actualLoops = Undefined \/ node.actualLoops > 1000)
  THEN <<[type |-> "critical", title |-> "High Loop Count",
          description |->
            <<"Nested loop executed ">>
              \o planFormatNumber(actualLoops(node))
              \o <<" times. This could indicate an N+1 problem.">>,
          node |-> node.nodeType]>>
  ELSE <<>>

\* the check for a nested loop with many iterations
loopWarning(node) ==
  IF includes(node.nodeType, <<"Nested", " ", "Loop">>)
     /\ actualLoops(node) > 1000
  THEN <<[type |-> "critical", title |-> "High Loop Count",
          description |->
            <<"Nested loop executed ">>
              \o planFormatNumber(actualLoops(node))
              \o <<" times. This could indicate an N+1 problem.">>,
          node |-> node.nodeType]>>
  ELSE <<>>

\* faulty variant: the checks are chained, the first that fires ends them
nodeWarningsFirstOnly(node) ==
  IF seqScanWarning(node) # <<>> THEN seqScanWarning(node)
  ELSE IF mismatchWarning(node) # <<>> THEN mismatchWarning(node)
  ELSE IF sortWarning(node) # <<>> THEN sortWarning(node)
  ELSE loopWarning(node)

\* the warnings one node adds, in the order of the checks
nodeWarnings(node) ==
  seqScanWarning(node) \o mismatchWarning(node) \o sortWarning(node)
    \o loopWarning(node)

\* the counters and warnings before the traversal
NoTotals ==
  [totalRows |-> 0, nodeCount |-> 0, bufferHits |-> 0, bufferReads |-> 0,
   warnings |-> <<>>]

\* the counters and warnings once the node itself is accounted for
countNode(node, acc) ==
  [totalRows |-> acc.totalRows + OrZero(node.actualRows),
   nodeCount |-> acc.nodeCount + 1,
   bufferHits |-> acc.bufferHits + OrZero(node.sharedHitBlocks),
   bufferReads |-> acc.bufferReads + OrZero(node.sharedReadBlocks),
   warnings |-> acc.warnings \o nodeWarnings(node)]

RECURSIVE analyzeNode(_, _)

\* (node['Plans'] || []).forEach((child) => analyzeNode(child, depth + 1))
RECURSIVE analyzeChildren(_, _)
analyzeChildren(children, acc) ==
  IF children = <<>> THEN acc
  ELSE analyzeChildren(Tail(children), analyzeNode(Head(children), acc))

\* faulty variant: the children are not visited
analyzeNodeShallow(node, acc) ==
  IF ~node.present THEN acc ELSE countNode(node, acc)

\* analyzeNode, the counters and warnings passed along
analyzeNode(node, acc) ==
  IF ~node.present THEN acc
  ELSE analyzeChildren(node.Plans, countNode(node, acc))

\* faulty variant: no guard against the empty denominator
cacheHitInsightUnguarded(bufferHits, bufferReads) ==
  [label |-> "Cache Hit Rate",
   value |-> IF bufferHits + bufferReads > 0
             THEN toFixed(100 * bufferHits, bufferHits + bufferReads, 1)
                    \o <<"%">>
             ELSE <<"NaN", "%">>,
   status |-> IF bufferHits + bufferReads > 0
                 /\ 100 * bufferHits > 95 * (bufferHits + bufferReads)
              THEN "good" ELSE "warning"]

\* faulty variant: a rate of exactly 95% is good
cacheHitInsightInclusive(bufferHits, bufferReads) ==
  [label |-> "Cache Hit Rate",
   value |-> IF bufferHits + bufferReads > 0
             THEN toFixed(100 * bufferHits, bufferHits + bufferReads, 1)
                    \o <<"%">>
             ELSE <<"N/A">>,
   status |-> IF 100 * bufferHits
                   >= 95 * (IF bufferHits + bufferReads = 0 THEN 1
                            ELSE bufferHits + bufferReads)
              THEN "good" ELSE "warning"]

\* the first insight: bufferHits / (bufferHits + bufferReads || 1) > 0.95
cacheHitInsight(bufferHits, bufferReads) ==
  [label |-> "Cache Hit Rate",
   value |-> IF bufferHits + bufferReads > 0
             THEN toFixed(100 * bufferHits, bufferHits + bufferReads, 1)
                    \o <<"%">>
             ELSE <<"N/A">>,
   status |-> IF 100 * bufferHits
                   > 95 * (IF bufferHits + bufferReads = 0 THEN 1
                           ELSE bufferHits + bufferReads)
              THEN "good" ELSE "warning"]

\* faulty variant: 20 operations already warn
operationsInsightInclusive(nodeCount) ==
  [label |-> "Operations", value |-> formatNumber(nodeCount),
   status |-> IF nodeCount >= 20 THEN "warning" ELSE "good"]

\* the second insight
operationsInsight(nodeCount) ==
  [label |-> "Operations", value |-> formatNumber(nodeCount),
   status |-> IF nodeCount > 20 THEN "warning" ELSE "good"]

\* the third insight: critical above 1000 ms, warning above 100 ms
executionInsight(executionTime) ==
  [label |-> "Execution", value |-> formatTime(executionTime),
   status |-> IF executionTime > 1000000 THEN "critical"
              ELSE IF executionTime > 100000 THEN "warning" ELSE "good"]

\* a plan entry without anything in it
NoEntry ==
  [Plan |-> NoNode, executionTime |-> Undefined,
   planningTime |-> Undefined]

\* plan?.[0]
firstEntry(p) == IF p = <<>> THEN NoEntry ELSE p[1]

\* plan?.[0]?.['Execution Time'] || rootPlan?.['Actual Total Time'] || 0
executionTimeOf(entry) ==
  IF OrZero(entry.executionTime) # 0 THEN entry.executionTime
  ELSE OrZero(entry.Plan.actualTime)

\* the PlanAnalysis, from the entry, its execution time and the outcome of
\* the traversal
planAnalysis(entry, executionTime, acc) ==
  [present |-> TRUE,
   totalTime |-> executionTime + OrZero(entry.planningTime),
   planningTime |-> OrZero(entry.planningTime),
   executionTime |-> executionTime,
   totalRows |-> acc.totalRows,
   totalCost |-> OrZero(entry.Plan.totalCost),
   bufferHits |-> acc.bufferHits,
   bufferReads |-> acc.bufferReads,
   nodeCount |-> acc.nodeCount,
   warnings |-> acc.warnings,
   insights |-> <<cacheHitInsight(acc.bufferHits, acc.bufferReads),
                  operationsInsight(acc.nodeCount),
                  executionInsight(executionTime)>>]

analyzeEntry(entry) ==
  planAnalysis(entry, executionTimeOf(entry), analyzeNode(entry.Plan, NoTotals))

analyzePlan(p) == analyzeEntry(firstEntry(p))

\* ------------------------------------------------------------------------
\* The plans put on display
\* ------------------------------------------------------------------------

\* 'Node Type', <<>> when the field is absent
NodeTypes ==
  {<<>>, <<"Seq", " ", "Scan">>, <<"Parallel", " ", "Seq", " ", "Scan">>,
   <<"Index", " ", "Scan">>, <<"Sort">>, <<"Nested", " ", "Loop">>}

\* a node of the given type, measures and children
Node(type, m, children) ==
  [present |-> TRUE, nodeType |-> type, actualRows |-> m[1],
   planRows |-> m[2], actualTime |-> m[3], totalCost |-> m[4],
   sharedHitBlocks |-> m[5], sharedReadBlocks |-> m[6],
   relationName |-> m[7], actualLoops |-> m[8], Plans |-> children]

\* the measures of a node: 'Actual Rows', 'Plan Rows', 'Actual Total Time'
\* (microseconds), 'Total Cost', 'Shared Hit Blocks', 'Shared Read Blocks',
\* 'Relation Name', 'Actual Loops'
Measures ==
  {<<Undefined, Undefined, Undefined, Undefined, Undefined, Undefined, "",
     Undefined>>,
   <<0, 0, 0, 0, 0, 0, "orders", 0>>,
   <<50000, 50000, 50000, 1200, 95, 5, "orders", 1>>,
   <<10000, 1000, 100000, 40, 96, 4, "orders", 1000>>,
   <<10001, 1000, 100001, 40, 19, 1, "", 1001>>,
   <<10, 101, 1500000, 7, Undefined, 7, "t", 5000>>,
   <<5, 50, 250, 7, 2, Undefined, "t", 10>>,
   <<500, 0, 250, 7, 2, 2, "t", 1>>,
   <<0, 500, 250, 7, 2, 2, "t", 1>>}

\* the children a parent is given, a null among them
ChildNodes ==
  {NoNode,
   Node(<<"Seq", " ", "Scan">>,
        <<50000, 50000, 50000, 1200, 95, 5, "orders", 1>>, <<>>),
   Node(<<"Nested", " ", "Loop">>,
        <<10, 101, 1500000, 7, Undefined, 7, "t", 5000>>, <<>>),
   Node(<<"Sort">>,
        <<10001, 1000, 100001, 40, 19, 1, "", 1001>>, <<>>)}

\* the largest number of children of a node
MaxChildren == 2

ChildLists == UNION {[1..n -> ChildNodes] : n \in 1..MaxChildren}

\* the roots that have children
ParentMeasures ==
  {<<Undefined, Undefined, Undefined, Undefined, Undefined, Undefined, "",
     Undefined>>,
   <<50000, 50000, 50000, 1200, 95, 5, "orders", 1>>}

\* how many children a wide root has: 20 and 21 nodes in all
WideCounts == {19, 20}

PlanNodes ==
  {Node(t, m, <<>>) : t \in NodeTypes, m \in Measures}
    \cup {Node(<<>>, m, [i \in 1..k |-> Node(<<"Index", " ", "Scan">>, m, <<>>)]) :
            m \in ParentMeasures, k \in WideCounts}
    \cup {Node(t, m, c) : t \in {<<>>, <<"Nested", " ", "Loop">>},
                          m \in ParentMeasures, c \in ChildLists}
    \cup {Node(t, m, <<Node(<<"Nested", " ", "Loop">>, m, c)>>) :
            t \in {<<"Sort">>}, m \in ParentMeasures,
            c \in {l \in ChildLists : Len(l) = 1}}

\* 'Execution Time' of the entry, in microseconds
ExecutionTimes == {Undefined, 100000, 1000000, 1000001}

\* 'Planning Time' of the entry, in microseconds
PlanningTimes == {Undefined, 2000}

\* the plan prop: null or empty, or one entry with or without a Plan
PlanProps ==
  {<<>>}
    \cup {<<[Plan |-> n, executionTime |-> e, planningTime |-> pt]>> :
            n \in PlanNodes \cup {NoNode}, e \in ExecutionTimes,
            pt \in PlanningTimes}

PlanInit ==
  /\ sql = <<>>
  /\ pc = "plan"
  /\ LimiterIdle
  /\ EstimateIdle
  /\ LoadIdle
  /\ plan \in PlanProps
  /\ planPc = "given"
  /\ analysis = NoAnalysis

\* the component's useMemo: no analysis for a plan that is null, no array
\* or empty, analyzePlan(plan) otherwise
VisualExplain ==
  /\ planPc = "given"
  /\ analysis' = IF plan = <<>> THEN NoAnalysis ELSE analyzePlan(plan)
  /\ planPc' = "analyzed"
  /\ UNCHANGED plan
  /\ UNCHANGED <<limiterVars, estimateVars, loadVars>>

PlanNext == VisualExplain

PlanSpec == PlanInit /\ [][PlanNext]_vars

\* ------------------------------------------------------------------------
\* Vocabulary of the properties
\* ------------------------------------------------------------------------

EndsWith(s, suffix) ==
  /\ Len(s) >= Len(suffix)
  /\ SubSeq(s, Len(s) - Len(suffix) + 1, Len(s)) = suffix

\* s ends with the clause, and the clause starts a word
EndsWithClause(s, clause) ==
  /\ EndsWith(s, clause)
  /\ (Len(s) = Len(clause) \/ ~IsWord(s[Len(s) - Len(clause)]))

\* how many times the word K occurs in s
CountWord(s, K) == Cardinality({p \in 1..Len(s) : KeywordAt(s, p, K)})

\* the text ends with a semicolon, whitespace around it ignored
Terminated(s) == EndsWith(trim(s), <<";">>)

\* the text without surrounding whitespace and without its one terminator
Statement(s) ==
  IF Terminated(s)
  THEN TrimRight(SubSeq(trim(s), 1, Len(trim(s)) - 1))
  ELSE trim(s)

\* the clause text `LIMIT l` or `LIMIT l OFFSET o`
ClauseText(l, o) ==
  IF o > 0
  THEN <<"LIMIT", " ">> \o formatNumber(l)
         \o <<" ", "OFFSET", " ">> \o formatNumber(o)
  ELSE <<"LIMIT", " ">> \o formatNumber(l)

SemicolonIf(b) == IF b THEN <<";">> ELSE <<>>

Classified == analyzeQuery(sql)

\* ------------------------------------------------------------------------
\* C1  a statement that is not a SELECT is returned as it was given
\* ------------------------------------------------------------------------

\* C1: for every text classified INSERT, UPDATE, DELETE, DDL or OTHER and
\* every limit, offset and forceLimit, applyQueryLimit returns the very text
\* it was given and wasLimited = false.
C1_NonSelectUnchanged ==
  (pc = "limited" /\ Classified.type # "SELECT")
    => /\ res.sql = sql
       /\ res.wasLimited = FALSE

\* a DELETE with its own LIMIT and surrounding whitespace, under a forced
\* limit
C1_Witness ==
  /\ pc = "limited"
  /\ Classified.type = "DELETE"
  /\ Classified.hasLimit
  /\ req.forceLimit
  /\ req.limit = MaxNum
  /\ sql # trim(sql)
  /\ res.sql = sql

\* ------------------------------------------------------------------------
\* C2  a SELECT without a LIMIT gets `LIMIT L`
\* ------------------------------------------------------------------------

C2_Case ==
  /\ Classified.type = "SELECT"
  /\ ~Classified.hasLimit

C4_ExistingLimitPreserved ==
  (pc = "limited" /\ Classified.type = "SELECT" /\ Classified.hasLimit
     /\ ~req.forceLimit)
    => /\ res.sql = sql
       /\ res.wasLimited = FALSE
       /\ res.originalLimit = Classified.existingLimit
       /\ res.appliedLimit = Classified.existingLimit
       /\ res.appliedOffset
            = (IF Classified.existingOffset = Undefined THEN 0
               ELSE Classified.existingOffset)
       /\ EndsWithClause(Statement(sql), <<"LIMIT", " ", "1">>)
            => res.appliedLimit = 1 /\ res.appliedOffset = 0
       /\ EndsWithClause(Statement(sql),
                         <<"LIMIT", " ", "3", " ", "OFFSET", " ", "4">>)
            => res.appliedLimit = 3 /\ res.appliedOffset = 4
       /\ EndsWithClause(Statement(sql), <<"LIMIT", " ", "5", ",", "2", "0">>)
            => res.appliedLimit = 20 /\ res.appliedOffset = 5

\* a SELECT ending in LIMIT 5,20 asked for another limit and offset
C4_Witness ==
  /\ pc = "limited"
  /\ Classified.type = "SELECT"
  /\ ~req.forceLimit
  /\ req.limit = MaxNum
  /\ req.offset = MaxNum
  /\ res.originalLimit = 20
  /\ res.appliedOffset = 5
  /\ res.sql = sql

\* ------------------------------------------------------------------------
\* C5  a LIMIT inside a comment or a string literal
\* ------------------------------------------------------------------------

\* the word LIMIT occurs in the text, but only inside comments and string
\* literals
C5_Case ==
  /\ CountWord(sql, "LIMIT") > 0
  /\ CountWord(preprocessSql(sql), "LIMIT") = 0

\* C5: a LIMIT clause that appears only inside a string literal or inside a
\* comment is never matched: analyzeQuery reports hasLimit = false for such
\* a text.
C5_CommentStringImmunity ==
  (pc = "analyzed" /\ C5_Case) => info.hasLimit = FALSE

\* ------------------------------------------------------------------------
\* C6  the numbers of the trailing clause
\* ------------------------------------------------------------------------

ClauseNums == 0..MaxClauseNum

\* the statement in upper case with every whitespace run a single space
C6_Canonical == normalize(Statement(sql))

\* C6: a text ending in `LIMIT a, b` is read as offset a and limit b, one
\* ending in `LIMIT n OFFSET m` as limit n and offset m, one ending in
\* `LIMIT n` alone as limit n without an offset; the comma form is read
\* only when a comma separates the two numbers.
C6_TrailingClauseExtraction ==
  pc = "analyzed" =>
    /\ \A a \in ClauseNums, b \in ClauseNums :
         /\ EndsWithClause(C6_Canonical,
                           <<"LIMIT", " ">> \o formatNumber(a) \o <<",">>
                             \o formatNumber(b))
              => /\ info.hasLimit /\ info.hasOffset
                 /\ info.existingOffset = a
                 /\ info.existingLimit = b
         /\ EndsWithClause(C6_Canonical,
                           <<"LIMIT", " ">> \o formatNumber(a)
                             \o <<" ", ",", " ">> \o formatNumber(b))
              => /\ info.hasLimit /\ info.hasOffset
                 /\ info.existingOffset = a
                 /\ info.existingLimit = b
         /\ EndsWithClause(C6_Canonical,
                           <<"LIMIT", " ">> \o formatNumber(a)
                             \o <<" ", "OFFSET", " ">> \o formatNumber(b))
              => /\ info.hasLimit /\ info.hasOffset
                 /\ info.existingLimit = a
                 /\ info.existingOffset = b
    /\ \A n \in ClauseNums :
         EndsWithClause(C6_Canonical, <<"LIMIT", " ">> \o formatNumber(n))
           => /\ info.hasLimit /\ ~info.hasOffset
              /\ info.existingLimit = n
              /\ info.existingOffset = Undefined
    /\ EndsWithClause(C6_Canonical,
                      <<"LIMIT", " ", "0", "7", " ", "OFFSET", " ", "0">>)
         => /\ info.hasLimit /\ info.hasOffset
            /\ info.existingLimit = 7
            /\ info.existingOffset = 0
    /\ (info.hasLimit /\ info.hasOffset
          /\ \A p \in 1..Len(sql) : sql[p] # ",")
         => CountWord(sql, "OFFSET") > 0

\* the text ends in LIMIT 5, 20
C6_Witness ==
  /\ pc = "analyzed"
  /\ info.type = "SELECT"
  /\ info.hasLimit
  /\ info.existingOffset = 5
  /\ info.existingLimit = 20
  /\ Terminated(sql)

\* ------------------------------------------------------------------------
\* C7  the statement kind
\* ------------------------------------------------------------------------

\* the position after a maximal run of word atoms starting at i
RECURSIVE C7_SkipWord(_, _)
C7_SkipWord(s, i) ==
  IF i <= Len(s) /\ IsWord(s[i]) THEN C7_SkipWord(s, i + 1) ELSE i

\* the first word of the text when it is a single keyword, else ""
C7_LeadingKeyword ==
  LET t == trim(sql)
  IN  IF C7_SkipWord(t, 1) = 2 THEN Upper(t[1]) ELSE ""

C7_Expected ==
  LET k == C7_LeadingKeyword
  IN  CASE k \in {"SELECT", "INSERT", "UPDATE", "DELETE"} -> k
        [] k \in {"CREATE", "ALTER", "DROP", "TRUNCATE"} -> "DDL"
        [] k = "WITH" ->
             IF CountWord(sql, "SELECT") > 0 THEN "SELECT" ELSE "OTHER"
        [] OTHER -> "OTHER"

\* C7: the kind is decided by the leading keyword alone (SELECT, INSERT,
\* UPDATE, DELETE, the DDL group); a text beginning with WITH that contains
\* the keyword SELECT anywhere is a SELECT; every other text is OTHER, and
\* every text gets a kind.
C7_KindFromLeadingKeyword ==
  pc = "analyzed" => info.type = C7_Expected

\* a WITH statement that holds a SELECT and a DELETE
C7_Witness ==
  /\ pc = "analyzed"
  /\ info.hasCTE
  /\ info.type = "SELECT"
  /\ CountWord(sql, "DELETE") > 0

\* ------------------------------------------------------------------------
\* C8  a terminating semicolon
\* ------------------------------------------------------------------------

\* C8 as stated: for every text that does not end in a semicolon, the text
\* with a semicolon appended gets the same descriptor.
C8_SemicolonInsensitive ==
  (pc = "compared" /\ (sql = <<>> \/ sql[Len(sql)] # ";"))
    => infoSemi = info

\* C8 amended: for every text that, trailing whitespace ignored, does not
\* end in a semicolon, the text with a semicolon appended gets the same
\* descriptor.
C8_SemicolonInsensitiveTrimmed ==
  (pc = "compared" /\ ~Terminated(sql)) => infoSemi = info

\* a SELECT with a LIMIT and an OFFSET, with trailing whitespace and no
\* semicolon
C8_Witness ==
  /\ pc = "compared"
  /\ ~Terminated(sql)
  /\ sql # trim(sql)
  /\ info.type = "SELECT"
  /\ info.hasLimit
  /\ info.existingOffset = 4
  /\ infoSemi.existingOffset = 4

\* ------------------------------------------------------------------------
\* C9  the semicolon of a rewritten statement
\* ------------------------------------------------------------------------

\* C9: whenever the statement is rewritten (wasLimited = true), a forced
\* override included, the output ends with a semicolon if and only if the
\* input did, and the semicolon comes directly after the new clause.
C9_SemicolonRestored ==
  (pc = "limited" /\ res.wasLimited)
    => /\ EndsWith(res.sql, <<";">>) <=> Terminated(sql)
       /\ EndsWith(res.sql, <<";">>)
            => EndsWith(res.sql, ClauseText(req.limit, req.offset)
                                   \o <<";">>)

\* ------------------------------------------------------------------------
\* C10  a limit of 0
\* ------------------------------------------------------------------------

\* C10: every call returns a result; a SELECT without a LIMIT, or under a
\* forced limit, is rewritten, and with limit 0 the rewritten text carries
\* the clause `LIMIT 0` with wasLimited = true and appliedLimit = 0.
C10_LimitZeroAccepted ==
  pc = "limited" =>
    /\ res.wasLimited \in BOOLEAN
    /\ res.appliedLimit \in Nat
    /\ res.appliedOffset \in Nat
    /\ (Classified.type = "SELECT"
          /\ (~Classified.hasLimit \/ req.forceLimit))
         => res.wasLimited
    /\ (res.wasLimited /\ req.limit = 0)
         => /\ res.appliedLimit = 0
            /\ EndsWith(Statement(res.sql),
                        <<" ", "LIMIT", " ", "0">>
                          \o (IF req.offset > 0
                              THEN <<" ", "OFFSET", " ">>
                                     \o formatNumber(req.offset)
                              ELSE <<>>))

\* a SELECT with its own LIMIT forced to LIMIT 0
C10_Witness ==
  /\ pc = "limited"
  /\ req.limit = 0
  /\ req.forceLimit
  /\ Classified.hasLimit
  /\ res.wasLimited
  /\ res.appliedLimit = 0
  /\ res.originalLimit = 25

\* ------------------------------------------------------------------------
\* C11  a rewrite touches the trailing clause region only
\* ------------------------------------------------------------------------

\* what the rewriter writes after the part it keeps
C11_Written(b) ==
  <<" ">> \o ClauseText(req.limit, req.offset) \o SemicolonIf(b)

\* the part of the result before what was written
C11_Kept(b) == SubSeq(res.sql, 1, Len(res.sql) - Len(C11_Written(b)))

\* the part of the given text that follows the kept part
C11_Region(b) ==
  SubSeq(TrimLeft(sql), Len(C11_Kept(b)) + 1, Len(TrimLeft(sql)))

\* nothing but whitespace and terminators: the clause was inserted
C11_IsBlank(t) == \A i \in 1..Len(t) : IsSpace(t[i]) \/ t[i] = ";"

\* one LIMIT clause, standard or comma form, with whitespace and
\* terminators around it: the clause was replaced
C11_IsClause(t) ==
  /\ \A i \in 1..Len(t) :
       \/ IsSpace(t[i]) \/ IsDigit(t[i]) \/ t[i] \in {";", ","}
       \/ Upper(t[i]) \in {"LIMIT", "OFFSET"}
  /\ CountWord(t, "LIMIT") = 1
  /\ CountWord(t, "OFFSET") <= 1
  /\ Upper(Head(TrimLeft(t))) = "LIMIT"

EstimateRequested ==
  /\ dbType # "none"
  /\ sql # <<>>
  /\ estimatePc # "idle"

\* some call to the database layer threw
EstimateCallFailed == \E i \in 1..Len(dbCalls) : dbCalls[i].threw # "none"

\* the EXPLAIN statements issued
ExplainCalls == {i \in 1..Len(dbCalls) : dbCalls[i].op = "query"}

\* what a step of a MySQL EXPLAIN counts: its number, 0 when it has none
StepCount(v) ==
  IF v # <<>> /\ \A i \in 1..Len(v) : IsDigit(v[i]) THEN parseInt(v) ELSE 0

RECURSIVE StepTotal(_)
StepTotal(steps) ==
  IF steps = <<>> THEN 0 ELSE StepCount(Head(steps)) + StepTotal(Tail(steps))

\* ------------------------------------------------------------------------
\* C12  a failed plan call is answered with a zero estimate
\* ------------------------------------------------------------------------

\* C12: whenever the provider lookup or the EXPLAIN statement of an
\* estimate request throws (a QueryError, a TimeoutError, another database
\* error or any other error), the route answers with status 200,
\* estimatedRows = 0, isLargeResult = false, no warning, and at most one of
\* its two diagnostic strings.
C12_FailureAnsweredWithZero ==
  (estimatePc = "answered" /\ EstimateCallFailed)
    => /\ estimate.status = 200
       /\ estimate.estimatedRows = 0
       /\ estimate.isLargeResult = FALSE
       /\ estimate.warning = <<>>
       /\ estimate.error \in {"", "Could not estimate row count",
                              "Estimate timed out"}

\* the EXPLAIN of a PostgreSQL SELECT fails with an error that is no
\* database error
C12_Witness ==
  /\ estimatePc = "answered"
  /\ dbType = "postgres"
  /\ Len(dbCalls) = 2
  /\ dbCalls[2].threw = "Error"
  /\ estimate.status = 200

\* ------------------------------------------------------------------------
\* C13  no database call for a statement that is not a SELECT
\* ------------------------------------------------------------------------

\* C13: for a request that names a connection and carries a statement the
\* classifier reports as not SELECT, the handler answers at once with
\* estimatedRows = 0 and isLargeResult = false, and it has called neither
\* getOrCreateProvider nor provider.query.
C13_NonSelectNoDatabaseCall ==
  (EstimateRequested /\ estimatePc # "received"
     /\ Classified.type # "SELECT")
    => /\ estimatePc = "answered"
       /\ estimate.status = 200
       /\ estimate.estimatedRows = 0
       /\ estimate.isLargeResult = FALSE
       /\ dbCalls = <<>>

\* a DELETE submitted over a PostgreSQL connection
C13_Witness ==
  /\ estimatePc = "answered"
  /\ dbType = "postgres"
  /\ Classified.type = "DELETE"
  /\ estimate.status = 200
  /\ dbCalls = <<>>

\* ------------------------------------------------------------------------
\* C14  isLargeResult and the warning follow the threshold
\* ------------------------------------------------------------------------

\* C14: in every estimate the route answers with, isLargeResult is true
\* exactly when estimatedRows > 10,000, and the warning is there exactly
\* when isLargeResult is true.
C14_LargeExactlyAboveThreshold ==
  (estimatePc = "answered" /\ estimate.status = 200)
    => /\ estimate.isLargeResult
            <=> (estimate.estimatedRows > LARGE_RESULT_THRESHOLD)
       /\ (estimate.warning # <<>>) <=> estimate.isLargeResult

\* a PostgreSQL plan of exactly 10,000 rows is not large
C14_Witness ==
  /\ estimatePc = "answered"
  /\ reply.hasPlan
  /\ reply.planRows = LARGE_RESULT_THRESHOLD
  /\ estimate.estimatedRows = LARGE_RESULT_THRESHOLD
  /\ ~estimate.isLargeResult
  /\ estimate.warning = <<>>

\* ------------------------------------------------------------------------
\* C15  what each engine is asked and what is made of its answer
\* ------------------------------------------------------------------------

RECURSIVE NodesOf(_)
RECURSIVE NodesOfAll(_)
NodesOf(node) ==
  IF ~node.present THEN <<>> ELSE <<node>> \o NodesOfAll(node.Plans)

NodesOfAll(children) ==
  IF children = <<>> THEN <<>>
  ELSE NodesOf(Head(children)) \o NodesOfAll(Tail(children))

\* the root node of the plan on display, NoNode when there is none
RootPlan == IF plan = <<>> THEN NoNode ELSE plan[1].Plan

\* the plan was analyzed
Analyzed == planPc = "analyzed" /\ analysis.present

SeqScanText == <<"Seq", " ", "Scan">>

NestedLoopText == <<"Nested", " ", "Loop">>

\* ------------------------------------------------------------------------
\* C16  a sequential scan of more than 10,000 rows is warned about
\* ------------------------------------------------------------------------

C16_LargeScans ==
  SelectSeq(NodesOf(RootPlan),
            LAMBDA n : /\ includes(n.nodeType, SeqScanText)
                       /\ n.actualRows > 10000)

C16_ScanWarnings ==
  SelectSeq(analysis.warnings, LAMBDA w : w.title = "Sequential Scan")

\* C16: the warnings titled "Sequential Scan" are, in traversal order, one
\* for each node of the tree, at whatever depth, whose node type contains
\* "Seq Scan" and whose actualRows is above 10,000; each has severity
\* warning and a description that holds the node's relation name; a node
\* of 10,000 rows or less has none.
C16_SeqScanWarned ==
  Analyzed
    => /\ Len(C16_ScanWarnings) = Len(C16_LargeScans)
       /\ \A i \in 1..Len(C16_ScanWarnings) :
            /\ C16_ScanWarnings[i].type = "warning"
            /\ C16_ScanWarnings[i].node = C16_LargeScans[i].nodeType
            /\ C16_LargeScans[i].relationName # ""
                 => includes(C16_ScanWarnings[i].description,
                             <<C16_LargeScans[i].relationName>>)

\* a Sort over a Nested Loop over a Seq Scan of 50,000 rows of "orders":
\* the scan, two levels down, is the one node warned about
C16_Witness ==
  /\ Analyzed
  /\ RootPlan.nodeType = <<"Sort">>
  /\ RootPlan.actualRows = Undefined
  /\ Len(RootPlan.Plans) = 1
  /\ Len(RootPlan.Plans[1].Plans) = 1
  /\ RootPlan.Plans[1].Plans[1].nodeType = SeqScanText
  /\ RootPlan.Plans[1].Plans[1].actualRows = 50000
  /\ Len(C16_ScanWarnings) = 1
  /\ includes(C16_ScanWarnings[1].description, <<"orders">>)

\* ------------------------------------------------------------------------
\* C17  a nested loop of more than 1000 iterations is critical
\* ------------------------------------------------------------------------

C17_RunawayLoops ==
  SelectSeq(NodesOf(RootPlan),
            LAMBDA n : /\ includes(n.nodeType, NestedLoopText)
                       /\ n.actualLoops > 1000)

C17_CriticalWarnings ==
  SelectSeq(analysis.warnings, LAMBDA w : w.type = "critical")

\* C17: the critical warnings are, in traversal order, one for each node
\* whose node type contains "Nested Loop" and whose actualLoops is above
\* 1000, each titled "High Loop Count"; a nested loop of 1000 loops or
\* fewer, or without a loop count, has none.
C17_RunawayLoopCritical ==
  Analyzed
    => /\ Len(C17_CriticalWarnings) = Len(C17_RunawayLoops)
       /\ \A i \in 1..Len(C17_CriticalWarnings) :
            /\ C17_CriticalWarnings[i].title = "High Loop Count"
            /\ C17_CriticalWarnings[i].node = C17_RunawayLoops[i].nodeType

\* a single Nested Loop node of 5000 loops: one critical warning
C17_Witness ==
  /\ Analyzed
  /\ RootPlan.nodeType = NestedLoopText
  /\ RootPlan.actualLoops = 5000
  /\ RootPlan.Plans = <<>>
  /\ Len(C17_CriticalWarnings) = 1
  /\ analysis.nodeCount = 1

\* ------------------------------------------------------------------------
\* C18  the status of the cache-hit insight
\* ------------------------------------------------------------------------

\* C18 as stated: the cache-hit insight is good exactly when bufferHits /
\* (bufferHits + bufferReads) is at least 95%, and 95 hits with 5 reads
\* give the value "95.0%" with status good.
C18_GoodAtLeast95 ==
  Analyzed
    => /\ (analysis.insights[1].status = "good")
            <=> /\ analysis.bufferHits + analysis.bufferReads > 0
                /\ 100 * analysis.bufferHits
                     >= 95 * (analysis.bufferHits + analysis.bufferReads)
       /\ analysis.insights[1].status \in {"good", "warning"}
       /\ (analysis.bufferHits = 95 /\ analysis.bufferReads = 5)
            => /\ analysis.insights[1].value = <<"9", "5", ".", "0", "%">>
               /\ analysis.insights[1].status = "good"

\* C18 amended: the cache-hit insight is good exactly when bufferHits /
\* (bufferHits + bufferReads) is above 95% and warning otherwise; 95 hits
\* with 5 reads give the value "95.0%" with status warning.
C18_GoodAbove95 ==
  Analyzed
    => /\ (analysis.insights[1].status = "good")
            <=> /\ analysis.bufferHits + analysis.bufferReads > 0
                /\ 100 * analysis.bufferHits
                     > 95 * (analysis.bufferHits + analysis.bufferReads)
       /\ analysis.insights[1].status \in {"good", "warning"}
       /\ analysis.insights[1].label = "Cache Hit Rate"
       /\ (analysis.bufferHits = 95 /\ analysis.bufferReads = 5)
            => /\ analysis.insights[1].value = <<"9", "5", ".", "0", "%">>
               /\ analysis.insights[1].status = "warning"

\* 95 hits and 5 reads
C18_Witness ==
  /\ Analyzed
  /\ analysis.bufferHits = 95
  /\ analysis.bufferReads = 5
  /\ analysis.insights[1].value = <<"9", "5", ".", "0", "%">>
  /\ analysis.insights[1].status = "warning"

\* ------------------------------------------------------------------------
\* C19  absent fields count as 0 and no division is by zero
\* ------------------------------------------------------------------------

C19_Zero(x) == IF x = Undefined THEN 0 ELSE x

\* the tree with 0 written into every numeric field that is absent
RECURSIVE C19_Filled(_)
RECURSIVE C19_FilledAll(_)
C19_Filled(node) ==
  IF ~node.present THEN node
  ELSE [node EXCEPT !.actualRows = C19_Zero(@),
                    !.planRows = C19_Zero(@),
                    !.actualTime = C19_Zero(@),
                    !.totalCost = C19_Zero(@),
                    !.sharedHitBlocks = C19_Zero(@),
                    !.sharedReadBlocks = C19_Zero(@),
                    !.actualLoops = C19_Zero(@),
                    !.Plans = C19_FilledAll(@)]

C19_FilledAll(children) ==
  IF children = <<>> THEN <<>>
  ELSE <<C19_Filled(Head(children))>> \o C19_FilledAll(Tail(children))

C19_FilledPlan ==
  <<[Plan |-> C19_Filled(plan[1].Plan),
     executionTime |-> C19_Zero(plan[1].executionTime),
     planningTime |-> C19_Zero(plan[1].planningTime)]>>

\* a percentage with one fraction digit
C19_IsPercentage(v) ==
  /\ Len(v) >= 4
  /\ v[Len(v)] = "%"
  /\ v[Len(v) - 2] = "."
  /\ IsDigit(v[Len(v) - 1])
  /\ \A i \in 1..(Len(v) - 3) : IsDigit(v[i])

\* C19: analyzePlan gives, for a plan with any of its optional fields
\* absent, the analysis it gives for the same plan with 0 in place of every
\* absent number; the cache-hit insight always has a value, a percentage or
\* "N/A", and a status, and with no buffer hits and no buffer reads they
\* are "N/A" and warning.
C19_AbsentFieldsCountZero ==
  Analyzed
    => /\ analysis = analyzePlan(C19_FilledPlan)
       /\ \/ analysis.insights[1].value = <<"N/A">>
          \/ C19_IsPercentage(analysis.insights[1].value)
       /\ analysis.insights[1].status \in {"good", "warning"}
       /\ (analysis.bufferHits + analysis.bufferReads = 0)
            => /\ analysis.insights[1].value = <<"N/A">>
               /\ analysis.insights[1].status = "warning"

\* a root with no field but its children, two nulls
C19_Witness ==
  /\ Analyzed
  /\ RootPlan.present
  /\ RootPlan.nodeType = <<>>
  /\ RootPlan.actualRows = Undefined
  /\ RootPlan.actualLoops = Undefined
  /\ Len(RootPlan.Plans) = 2
  /\ plan[1].executionTime = Undefined
  /\ analysis.bufferHits + analysis.bufferReads = 0
  /\ analysis.nodeCount = 1
  /\ analysis.insights[1].value = <<"N/A">>

\* ------------------------------------------------------------------------
\* C20  the analysis of an entry without a root node
\* ------------------------------------------------------------------------

\* C20: when the first entry of the plan has no Plan the analysis has no
\* warnings and no insights; when it has one the analysis has exactly three
\* insights.
C20_AbsentRootEmptyAnalysis ==
  (planPc = "analyzed" /\ plan # <<>>)
    => IF RootPlan.present
       THEN Len(analysis.insights) = 3
       ELSE analysis.warnings = <<>> /\ analysis.insights = <<>>

\* ------------------------------------------------------------------------
\* C23  the estimate-mismatch rule
\* ------------------------------------------------------------------------

C23_Mismatched ==
  SelectSeq(NodesOf(RootPlan),
            LAMBDA n : /\ n.planRows > 0
                       /\ n.actualRows > 0
                       /\ \/ n.actualRows > 10 * n.planRows
                          \/ 10 * n.actualRows < n.planRows)

C23_InfoWarnings ==
  SelectSeq(analysis.warnings, LAMBDA w : w.type = "info")

\* C23: the warnings of severity info are, in traversal order, one for each
\* node with planRows > 0, actualRows > 0 and actualRows / planRows above
\* 10 or below 0.1, each titled "Estimate Mismatch"; a ratio of exactly 10
\* or exactly 0.1, and a node with planRows = 0 or actualRows = 0, gives
\* none.
C23_MismatchInfo ==
  Analyzed
    => /\ Len(C23_InfoWarnings) = Len(C23_Mismatched)
       /\ \A i \in 1..Len(C23_InfoWarnings) :
            /\ C23_InfoWarnings[i].title = "Estimate Mismatch"
            /\ C23_InfoWarnings[i].node = C23_Mismatched[i].nodeType

\* an Index Scan that returned 10 rows where 101 were planned
C23_Witness ==
  /\ Analyzed
  /\ RootPlan.nodeType = <<"Index", " ", "Scan">>
  /\ RootPlan.actualRows = 10
  /\ RootPlan.planRows = 101
  /\ RootPlan.Plans = <<>>
  /\ Len(analysis.warnings) = 1
  /\ analysis.warnings[1].type = "info"

\* ------------------------------------------------------------------------
\* C24  the four rules are applied independently
\* ------------------------------------------------------------------------

\* the titles of the rules whose condition the node satisfies, in the
\* order of the rules
C24_Titles(n) ==
  (IF includes(n.nodeType, SeqScanText) /\ n.actualRows > 10000
   THEN <<"Sequential Scan">> ELSE <<>>)
  \o (IF /\ n.planRows > 0 /\ n.actualRows > 0
         /\ (n.actualRows > 10 * n.planRows
               \/ 10 * n.actualRows < n.planRows)
      THEN <<"Estimate Mismatch">> ELSE <<>>)
  \o (IF includes(n.nodeType, <<"Sort">>) /\ n.actualTime > 100000
      THEN <<"Expensive Sort">> ELSE <<>>)
  \o (IF includes(n.nodeType, NestedLoopText) /\ n.actualLoops > 1000
      THEN <<"High Loop Count">> ELSE <<>>)

RECURSIVE C24_TitlesOfAll(_)
C24_TitlesOfAll(nodes) ==
  IF nodes = <<>> THEN <<>>
  ELSE C24_Titles(Head(nodes)) \o C24_TitlesOfAll(Tail(nodes))

\* C24: the warnings are, node after node in traversal order, exactly one
\* for each of the four rules whose own condition the node satisfies: a
\* node that satisfies k rules adds k warnings.
C24_RulesIndependent ==
  Analyzed
    => [i \in 1..Len(analysis.warnings) |-> analysis.warnings[i].title]
         = C24_TitlesOfAll(NodesOf(RootPlan))

\* a Sort of 10,001 rows (1000 planned) that took 100.001 ms: two warnings
C24_Witness ==
  /\ Analyzed
  /\ RootPlan.nodeType = <<"Sort">>
  /\ RootPlan.Plans = <<>>
  /\ RootPlan.actualRows = 10001
  /\ RootPlan.actualTime = 100001
  /\ Len(analysis.warnings) = 2
  /\ analysis.warnings[1].title = "Estimate Mismatch"
  /\ analysis.warnings[2].title = "Expensive Sort"

\* ------------------------------------------------------------------------
\* C25  the three insights
\* ------------------------------------------------------------------------

\* C25: for a plan with a root node the insights are three, Cache Hit Rate,
\* Operations and Execution in this order; Operations is warning exactly
\* when the tree has more than 20 nodes and good otherwise; Execution is
\* critical above 1000 ms, warning above 100 ms up to 1000 ms and good
\* otherwise.
C25_ThreeInsights ==
  (Analyzed /\ RootPlan.present)
    => /\ Len(analysis.insights) = 3
       /\ analysis.insights[1].label = "Cache Hit Rate"
       /\ analysis.insights[2].label = "Operations"
       /\ analysis.insights[3].label = "Execution"
       /\ analysis.insights[2].status
            = IF Len(NodesOf(RootPlan)) > 20 THEN "warning" ELSE "good"
       /\ analysis.insights[3].status
            = IF analysis.executionTime > 1000000 THEN "critical"
              ELSE IF analysis.executionTime > 100000 THEN "warning"
              ELSE "good"

\* a root over 20 children, executed in exactly 1000 ms
C25_Witness ==
  /\ Analyzed
  /\ Len(RootPlan.Plans) = 20
  /\ plan[1].executionTime = 1000000
  /\ analysis.insights[2].value = <<"2", "1">>
  /\ analysis.insights[2].status = "warning"
  /\ analysis.insights[3].status = "warning"

\* ------------------------------------------------------------------------
\* C26  every node is counted once
\* ------------------------------------------------------------------------

RECURSIVE C26_Sum(_)
C26_Sum(numbers) ==
  IF numbers = <<>> THEN 0 ELSE Head(numbers) + C26_Sum(Tail(numbers))

\* C26: nodeCount is the number of nodes of the tree, totalRows the sum of
\* their actualRows, bufferHits and bufferReads the sums of their shared
\* hit and shared read blocks, an absent count being 0.
C26_EveryNodeCountedOnce ==
  Analyzed
    => /\ analysis.nodeCount = Len(NodesOf(RootPlan))
       /\ analysis.totalRows
            = C26_Sum([i \in 1..Len(NodesOf(RootPlan)) |->
                         C19_Zero(NodesOf(RootPlan)[i].actualRows)])
       /\ analysis.bufferHits
            = C26_Sum([i \in 1..Len(NodesOf(RootPlan)) |->
                         C19_Zero(NodesOf(RootPlan)[i].sharedHitBlocks)])
       /\ analysis.bufferReads
            = C26_Sum([i \in 1..Len(NodesOf(RootPlan)) |->
                         C19_Zero(NodesOf(RootPlan)[i].sharedReadBlocks)])

\* a Sort over a Nested Loop over a Seq Scan, 50,000 rows each
C26_Witness ==
  /\ Analyzed
  /\ RootPlan.nodeType = <<"Sort">>
  /\ Len(RootPlan.Plans) = 1
  /\ Len(RootPlan.Plans[1].Plans) = 1
  /\ RootPlan.Plans[1].Plans[1].present
  /\ analysis.nodeCount = 3
  /\ analysis.totalRows = 150000
  /\ analysis.bufferHits = 285
  /\ analysis.bufferReads = 15

\* a statement that begins with WITH, has a SELECT in it and a write as its
\* main verb
C27_WriteBehindCTE ==
  /\ StartsWithKeyword(sql, "WITH")
  /\ HasKeyword(sql, "SELECT")
  /\ \E K \in {"INSERT", "UPDATE", "DELETE"} : HasKeyword(sql, K)

\* C27: a statement that begins with WITH, whose CTE body contains SELECT
\* and whose main verb is INSERT, UPDATE or DELETE is returned unchanged by
\* applyQueryLimit, wasLimited = false, and the query route executes it as
\* submitted.
C27_WriteNeverLimited ==
  C27_WriteBehindCTE
    => /\ pc = "limited" => res.sql = sql /\ ~res.wasLimited
       /\ (pc = "responded" /\ resp.executed)
            => resp.finalSql = sql /\ ~resp.wasLimited

\* the text ends with an OFFSET that no LIMIT precedes
C30_BareOffset(s) ==
  /\ analyzeQuery(s).type = "SELECT"
  /\ ~analyzeQuery(s).hasLimit
  /\ analyzeQuery(s).hasOffset

\* the submitted SELECT ends with `OFFSET m`, or with `OFFSET m LIMIT n`
C30_OffsetOutsideLimit ==
  \/ C30_BareOffset(sql)
  \/ /\ Classified.hasLimit
     /\ ~Classified.hasOffset
     /\ C30_BareOffset(stripStandardLimit(trim(sql)))

\* C30: for a SELECT that ends with `OFFSET m` or `OFFSET m LIMIT n`, a
\* result with wasLimited = true has one LIMIT and at most one OFFSET after
\* the body: the rewrite adds one LIMIT word where the text had none at its
\* end and none where it had one, and leaves no second OFFSET word.
C30_OneLimitOneOffset ==
  (pc = "limited" /\ C30_OffsetOutsideLimit /\ res.wasLimited)
    => /\ CountWord(res.sql, "LIMIT")
            = CountWord(sql, "LIMIT") + (IF Classified.hasLimit THEN 0 ELSE 1)
       /\ CountWord(res.sql, "OFFSET") <= 1

\* C29: when applyQueryLimit(s, L, O) reports wasLimited = true,
\* analyzeQuery of the sql it returned says SELECT with hasLimit,
\* existingLimit = L, and existingOffset = O when O > 0 and no offset when
\* O = 0; applyQueryLimit of that sql without forceLimit returns it as it
\* is, wasLimited = false, whatever limit and offset are asked for.
C29_RoundTrip ==
  pc = "reapplied"
    => /\ info2.type = "SELECT"
       /\ info2.hasLimit
       /\ info2.existingLimit = req.limit
       /\ req.offset > 0
            => info2.hasOffset /\ info2.existingOffset = req.offset
       /\ req.offset = 0
            => ~info2.hasOffset /\ info2.existingOffset = Undefined
       /\ res2.sql = res.sql
       /\ ~res2.wasLimited

\* a SELECT with no LIMIT of its own was given LIMIT 10 OFFSET 10, and a
\* second call asking for LIMIT 0 left that text alone
C29_Witness ==
  /\ pc = "reapplied"
  /\ ~req.forceLimit
  /\ ~Classified.hasLimit
  /\ req.limit = MaxNum
  /\ req.offset = MaxNum
  /\ info2.existingLimit = MaxNum
  /\ info2.existingOffset = MaxNum
  /\ req2.limit = 0
  /\ res2.sql = res.sql
  /\ EndsWithClause(Statement(res2.sql), ClauseText(MaxNum, MaxNum))

\* the ParsedQueryInfo of the statement the query route sent to the database
C22_Executed == analyzeQuery(resp.finalSql)

C28_NoRowTwice ==
  \A i, j \in 1..Len(delivered) : i # j => delivered[i] # delivered[j]

\* C28: in a Load-More sequence no row is delivered twice; as long as the
\* response says hasMore every page so far was a full page of new rows, so
\* the sequence ends within rowCount / limit + 1 requests; and the limit
\* and offset the response reports are the LIMIT and OFFSET of the
\* statement that was executed, also when the SELECT has its own LIMIT.
C28_LoadMoreExact ==
  (pc = "load" /\ pages > 0 /\ resp.status = 200)
    => /\ C28_NoRowTwice
       /\ resp.hasMore => pages * resp.limit <= rowCount
       /\ analyzeQuery(resp.finalSql).existingLimit = resp.limit
       /\ OrZero(analyzeQuery(resp.finalSql).existingOffset) = resp.offset

\* what the query route answers to the request on its own: the rejection,
\* or the response for the options and one outcome of the database call
C21_RouteAlone ==
  {[NoResp EXCEPT !.status = 400]}
    \cup {RouteWithOptions(
            IF options.unlimited THEN MAX_UNLIMITED_ROWS
            ELSE IF options.limit = Undefined THEN DEFAULT_QUERY_LIMIT
            ELSE options.limit,
            OrZero(options.offset), outcome) :
            outcome \in {"empty", "full"} \cup DbErrors}

====
